---------------------------- MODULE Spec2Model ----------------------------
(***************************************************************************)
(* A model of the recipe ETL pipeline: the ingredient normalizer, the      *)
(* flatten transform, the data quality checker, the three-phase MySQL      *)
(* upsert and the Prefect flow that chains them.                           *)
(*                                                                         *)
(* Python text is a sequence of one-character strings, so that strip,      *)
(* lower, the regular expressions and str.replace are computed character   *)
(* by character.  A Python value is a record [t, v]: t is its type         *)
(* ("none", "str", "int") and v the characters of str(value).              *)
(***************************************************************************)
EXTENDS Integers, Sequences, FiniteSets, TLC

VARIABLES
    nameIn,      \* normalizer: the argument of normalize_ingredient_name
    nameOut,     \* normalizer: normalize_ingredient_name(nameIn)
    nameOut2,    \* normalizer: normalize_ingredient_name(nameOut)
    npc,         \* normalizer: "start", "once", "twice"
    measureIn,   \* normalizer: the argument of normalize_measure
    measureOut,  \* normalizer: normalize_measure(measureIn)
    mpc,         \* normalizer: "start", "done"
    raw,         \* flatten: recipes_json, the raw batch
    flat,        \* flatten: what flatten(raw) produced (a frame or an exception)
    fpc,         \* flatten: "start", "done"
    qdf,         \* checker: the frame the checks run on
    results,     \* checker: DataQualityChecker.results
    evaluated,   \* checker: every result a check has returned, in order
    qret,        \* checker: how assert_all_passed ended
    qcalls,      \* checker: the number of check calls made
    qpc,         \* checker: "checking", "asserted", "validated", "summarized"
    summary,     \* checker: the dict get_summary returned
    recipes,             \* store: the rows of table recipes
    ingredients,         \* store: the rows of table ingredients
    recipe_ingredients,  \* store: the rows of table recipe_ingredients
    autoinc,     \* store: the next AUTO_INCREMENT value of recipes and ingredients
    ndeletes,    \* store: the number of rows another client has deleted
    nfails,      \* store: the number of transactions that have failed
    ldf,         \* load: the frame read from the parquet file
    lpc,         \* load: "idle", "phase1", "phase2", "phase3", "count", "done", "raised"
    lret,        \* load: the dict load_parquet_to_db returned
    nloads,      \* load: the number of calls of load_parquet_to_db so far
    prev,        \* load: the frame, outcome and tables of the call before this one
    lskipped,    \* load: the staged mapping rows the join of phase 3 left out
    wpc,         \* flow: "idle", "start", "extracted", "transformed", "validated",
                 \*       "loading", "completed", "failed"
    validate_quality,  \* flow: the argument of recipe_etl_flow
    parquet,     \* flow: whether save_parquet wrote the file, and the frame in it
    quality_passed,    \* flow: the local of that name
    error,       \* flow: the step whose exception reached the except clause
    etl_runs,    \* metadata: the rows of table etl_runs
    clock,       \* metadata: the time datetime.utcnow() returns next
    calls,       \* metadata: the log_etl_run calls made from outside the flow
    cache,       \* fetch: per dish type, the cache file of fetch_spoonacular
    bulkFailed,  \* fetch: per dish type, whether its latest bulk request failed
    lastFetch,   \* fetch: what the latest pass of the loop over dish types did
    nfetches     \* fetch: the number of passes so far

normVars == << nameIn, nameOut, nameOut2, npc, measureIn, measureOut, mpc >>

flatVars == << raw, flat, fpc >>

qualVars == << qdf, results, evaluated, qret, qcalls, qpc, summary >>

storeVars == << recipes, ingredients, recipe_ingredients, autoinc, ndeletes,
               nfails >>

loadVars == << ldf, lpc, lret, nloads, prev, lskipped >>

metaVars == << etl_runs, clock, calls >>

fetchVars == << cache, bulkFailed, lastFetch, nfetches >>

flowVars == << wpc, validate_quality, parquet, quality_passed, error, metaVars,
               fetchVars >>

vars == << normVars, flatVars, qualVars, storeVars, loadVars, flowVars >>

\* what the actions of one component leave alone
notNorm == << flatVars, qualVars, storeVars, loadVars, flowVars >>

notFlat == << normVars, qualVars, storeVars, loadVars, flowVars >>

notQual == << normVars, flatVars, storeVars, loadVars, flowVars >>

notLoad == << normVars, flatVars, qualVars >>

-----------------------------------------------------------------------------
(* Python values *)

PyNone == [t |-> "none", v |-> << >>]

PyStr(s) == [t |-> "str", v |-> s]

PyInt(s) == [t |-> "int", v |-> s]

\* a variable that holds no value yet
Unset == [t |-> "unset", v |-> << >>]

\* bool(x) for the three value types
Truthy(x) ==
    CASE x.t = "none" -> FALSE
      [] x.t = "str"  -> x.v # << >>
      [] x.t = "int"  -> x.v # << "0" >>

-----------------------------------------------------------------------------
(* Characters *)

LowerAlphabet ==
    << "a","b","c","d","e","f","g","h","i","j","k","l","m",
       "n","o","p","q","r","s","t","u","v","w","x","y","z" >>

UpperAlphabet ==
    << "A","B","C","D","E","F","G","H","I","J","K","L","M",
       "N","O","P","Q","R","S","T","U","V","W","X","Y","Z" >>

Range(f) == { f[i] : i \in DOMAIN f }

\* \d
Digit == { "0","1","2","3","4","5","6","7","8","9" }

\* [a-zA-Z]
AsciiLetter == Range(LowerAlphabet) \cup Range(UpperAlphabet)

\* \s
Space == { " ", "\t" }

\* \w
WordChar == AsciiLetter \cup Digit \cup { "_" }

\* str.lower() on one character
LowerChar(c) ==
    IF \E i \in 1..26 : UpperAlphabet[i] = c
    THEN LowerAlphabet[CHOOSE i \in 1..26 : UpperAlphabet[i] = c]
    ELSE c

\* str.lower()
Lower(s) == [i \in 1..Len(s) |-> LowerChar(s[i])]

\* str.strip()
Strip(s) ==
    LET n     == Len(s)
        first == CHOOSE i \in 1..(n + 1) :
                    /\ \A j \in 1..(i - 1) : s[j] \in Space
                    /\ (i = n + 1 \/ s[i] \notin Space)
        last  == CHOOSE i \in 0..n :
                    /\ \A j \in (i + 1)..n : s[j] \in Space
                    /\ (i = 0 \/ s[i] \notin Space)
    IN  IF first > last THEN << >> ELSE SubSeq(s, first, last)

IsKeptChar(c) == c \in WordChar \/ c \in Space

\* re.sub(r"[^\w\s]", "", s)
RemovePunct(s) == SelectSeq(s, IsKeptChar)

\* the number of characters of s from position i on that lie in cls
RunLen(s, i, cls) ==
    CHOOSE k \in 0..(Len(s) - i + 1) :
        /\ \A j \in i..(i + k - 1) : s[j] \in cls
        /\ (i + k > Len(s) \/ s[i + k] \notin cls)

\* re.sub(r"\s+", " ", s): every maximal run of whitespace becomes one blank
RECURSIVE CollapseWs(_)
CollapseWs(s) ==
    IF s = << >> THEN << >>
    ELSE IF s[1] \in Space
         THEN << " " >> \o CollapseWs(SubSeq(s, RunLen(s, 1, Space) + 1, Len(s)))
         ELSE << s[1] >> \o CollapseWs(Tail(s))

-----------------------------------------------------------------------------
(* A backtracking matcher for the regular expressions the normalizer uses: *)
(* a pattern is a sequence of items, each a character class with a greedy  *)
(* repetition.  MatchFrom is 0 when there is no match, and otherwise the   *)
(* position that follows the match.                                        *)

Plus(cls) == [cls |-> cls, min |-> 1, many |-> TRUE]

Star(cls) == [cls |-> cls, min |-> 0, many |-> TRUE]

Opt(cls)  == [cls |-> cls, min |-> 0, many |-> FALSE]

One(cls)  == [cls |-> cls, min |-> 1, many |-> FALSE]

RECURSIVE MatchFrom(_, _, _, _), TryCount(_, _, _, _, _)
MatchFrom(s, i, pat, k) ==
    IF k > Len(pat) THEN i
    ELSE LET run == RunLen(s, i, pat[k].cls)
             cap == IF pat[k].many \/ run = 0 THEN run ELSE 1
         IN  TryCount(s, i, pat, k, cap)

TryCount(s, i, pat, k, t) ==
    IF t < pat[k].min THEN 0
    ELSE LET m == MatchFrom(s, i + t, pat, k + 1)
         IN  IF m # 0 THEN m ELSE TryCount(s, i, pat, k, t - 1)

GARBAGE_PREFIXES ==
    << \* ^\d+\s*[a-zA-Z]*\s+of\s+
       << Plus(Digit), Star(Space), Star(AsciiLetter), Plus(Space),
          One({"o"}), One({"f"}), Plus(Space) >>,
       \* ^\d+\s+[a-zA-Z]+\s+
       << Plus(Digit), Plus(Space), Plus(AsciiLetter), Plus(Space) >>,
       \* ^\d+[\./]?\d*\s+[a-zA-Z]+\s+
       << Plus(Digit), Opt({".", "/"}), Star(Digit), Plus(Space),
          Plus(AsciiLetter), Plus(Space) >> >>

\* GARBAGE_PREFIX_RE.sub("", s): the alternatives are tried in order at the
\* start of the text, the only place where ^ matches
GarbagePrefixSub(s) ==
    LET end(a) == MatchFrom(s, 1, GARBAGE_PREFIXES[a], 1)
    IN  IF \E a \in 1..Len(GARBAGE_PREFIXES) : end(a) # 0
        THEN LET a == CHOOSE b \in 1..Len(GARBAGE_PREFIXES) :
                        /\ end(b) # 0
                        /\ \A c \in 1..(b - 1) : end(c) = 0
             IN  SubSeq(s, end(a), Len(s))
        ELSE s

PLURAL_REPLACEMENTS ==
  << << <<"e","g","g","s">>, <<"e","g","g">> >>,
     << <<"t","o","m","a","t","o","e","s">>, <<"t","o","m","a","t","o">> >>,
     << <<"p","o","t","a","t","o","e","s">>, <<"p","o","t","a","t","o">> >>,
     << <<"c","h","i","l","i","e","s">>, <<"c","h","i","l","i">> >>,
     << <<"b","e","r","r","i","e","s">>, <<"b","e","r","r","y">> >>,
     << <<"a","v","o","c","a","d","o","s">>, <<"a","v","o","c","a","d","o">> >>,
     << <<"c","o","c","o","n","u","t","s">>, <<"c","o","c","o","n","u","t">> >>,
     << <<"c","u","c","u","m","b","e","r","s">>, <<"c","u","c","u","m","b","e","r">> >>,
     << <<"l","e","e","k","s">>, <<"l","e","e","k">> >>,
     << <<"o","n","i","o","n","s">>, <<"o","n","i","o","n">> >>,
     << <<"p","i","n","e","a","p","p","l","e","s">>, <<"p","i","n","e","a","p","p","l","e">> >>,
     << <<"p","u","m","p","k","i","n","s">>, <<"p","u","m","p","k","i","n">> >>,
     << <<"r","a","d","i","s","h","e","s">>, <<"r","a","d","i","s","h">> >>,
     << <<"s","t","r","a","w","b","e","r","r","i","e","s">>, <<"s","t","r","a","w","b","e","r","r","y">> >>,
     << <<"b","a","n","a","n","a","s">>, <<"b","a","n","a","n","a">> >>,
     << <<"a","p","p","l","e","s">>, <<"a","p","p","l","e">> >>,
     << <<"o","r","a","n","g","e","s">>, <<"o","r","a","n","g","e">> >>,
     << <<"p","e","a","r","s">>, <<"p","e","a","r">> >>,
     << <<"p","l","u","m","s">>, <<"p","l","u","m">> >>,
     << <<"c","h","e","r","r","i","e","s">>, <<"c","h","e","r","r","y">> >>,
     << <<"g","r","a","p","e","s">>, <<"g","r","a","p","e">> >>,
     << <<"m","e","l","o","n","s">>, <<"m","e","l","o","n">> >>,
     << <<"n","e","c","t","a","r","i","n","e","s">>, <<"n","e","c","t","a","r","i","n","e">> >> >>

\* ReplacePlurals that replaces a listed plural at the end of the name
RECURSIVE ReplacePlurals_Suffix(_, _)
ReplacePlurals_Suffix(s, k) ==
    IF k > Len(PLURAL_REPLACEMENTS) THEN s
    ELSE LET plural == PLURAL_REPLACEMENTS[k][1]
             n      == Len(s) - Len(plural)
         IN  ReplacePlurals_Suffix(
                 IF n >= 0 /\ SubSeq(s, n + 1, Len(s)) = plural
                 THEN SubSeq(s, 1, n) \o PLURAL_REPLACEMENTS[k][2] ELSE s,
                 k + 1)

\* for plural, singular in PLURAL_REPLACEMENTS.items():
\*     if name == plural: name = singular
RECURSIVE ReplacePlurals(_, _)
ReplacePlurals(s, k) ==
    IF k > Len(PLURAL_REPLACEMENTS) THEN s
    ELSE ReplacePlurals(IF s = PLURAL_REPLACEMENTS[k][1]
                        THEN PLURAL_REPLACEMENTS[k][2] ELSE s, k + 1)

\* the set literal of the validity check
NameStoplist ==
    { <<"n","/","a">>, <<"n","o","n","e">>, <<"n","u","l","l">>,
      <<"u","n","k","n","o","w","n">> }

\* name.strip().lower(), then the two re.sub calls and the strip after them
CleanName(s) == Strip(CollapseWs(RemovePunct(Lower(Strip(s)))))

\* the name after prefix removal and plural replacement, before the
\* validity check
ProcessedName(s) == ReplacePlurals(Strip(GarbagePrefixSub(CleanName(s))), 1)

\* normalize_ingredient_name raises AttributeError on a truthy value that is
\* not a string (name.strip())
NormalizeNameRaises(x) == x.t = "int" /\ Truthy(x)

\* normalize_ingredient_name, for an argument on which it does not raise
normalize_ingredient_name(x) ==
    IF ~Truthy(x) \/ x.t # "str" \/ Strip(x.v) = << >> THEN PyNone
    ELSE LET name == ProcessedName(x.v)
         IN  IF Len(name) < 2 THEN PyNone
             ELSE IF name \in NameStoplist THEN PyNone
             ELSE PyStr(name)

\* the index of the first occurrence of pat in s at or after i, 0 if none
FindFrom(s, pat, i) ==
    LET hits == { j \in i..(Len(s) - Len(pat) + 1) :
                    SubSeq(s, j, j + Len(pat) - 1) = pat }
    IN  IF hits = {} THEN 0
        ELSE CHOOSE j \in hits : \A h \in hits : j <= h

\* str.replace(pat, ""): the non-overlapping occurrences, left to right
RECURSIVE RemoveAll(_, _)
RemoveAll(s, pat) ==
    LET j == FindFrom(s, pat, 1)
    IN  IF j = 0 THEN s
        ELSE SubSeq(s, 1, j - 1) \o RemoveAll(SubSeq(s, j + Len(pat), Len(s)), pat)

ToTaste == <<"t","o"," ","t","a","s","t","e">>

MeasureStoplist == { << >>, <<"n","/","a">>, <<"n","u","l","l">> }

\* normalize_measure, for None or a string
normalize_measure(x) ==
    IF ~Truthy(x) \/ Strip(x.v) = << >> THEN PyNone
    ELSE LET m == Strip(RemoveAll(Lower(Strip(x.v)), ToTaste))
         IN  IF m \in MeasureStoplist THEN PyNone ELSE PyStr(m)

-----------------------------------------------------------------------------
(* flatten.  A raw record is a record of Python values; a key the source   *)
(* record lacks is None, as record.get returns it.  The ingredients field  *)
(* is [t, items, v]: a list of items, None, or a string (a value that is   *)
(* not a list).  An item is [t, ingredient, measure] with t "dict", "none" *)
(* or "str" (an entry that is not a dict).  A frame is [raised, cols,      *)
(* rows]: raised tells that the call ended in an exception.                *)

IngList(items) == [t |-> "list", items |-> items, v |-> << >>]

IngNone == [t |-> "none", items |-> << >>, v |-> << >>]

IngStr(s) == [t |-> "str", items |-> << >>, v |-> s]

Item(ingredient, measure) ==
    [t |-> "dict", ingredient |-> ingredient, measure |-> measure]

ItemNone == [t |-> "none", ingredient |-> PyNone, measure |-> PyNone]

ItemStr == [t |-> "str", ingredient |-> PyNone, measure |-> PyNone]

FLATTEN_COLUMNS ==
    { "source_name", "source_id", "name", "category", "area",
      "instructions", "thumbnail", "ingredients" }

\* item.get("ingredient") on an entry that is no dict raises AttributeError,
\* and so does normalize_ingredient_name on a truthy non-string
ItemRaises(item) ==
    item.t # "dict" \/ NormalizeNameRaises(item.ingredient)

\* record.get("ingredients") or []
IngredientItems(f) ==
    CASE f.t = "none" -> << >>
      [] f.t = "list" -> f.items
      [] f.t = "str"  -> [i \in 1..Len(f.v) |-> ItemStr]

\* the inner loop of flatten raises on the first entry it cannot handle
IngredientsRaise(f) ==
    \E i \in 1..Len(IngredientItems(f)) : ItemRaises(IngredientItems(f)[i])

\* FlatEntry without normalize_ingredient_name
FlatEntry_Unnormalized(item) ==
    [ingredient |-> item.ingredient.v,
     measure    |-> IF item.measure.t = "str"
                    THEN normalize_measure(item.measure)
                    ELSE item.measure]

\* one pass of the inner loop: the entry appended for an item, if any
FlatEntry(item) ==
    [ingredient |-> normalize_ingredient_name(item.ingredient).v,
     measure    |-> IF item.measure.t = "str"
                    THEN normalize_measure(item.measure)
                    ELSE item.measure]

\* ItemKept without the test of the normalized name
ItemKept_Always(item) == TRUE

\* if ingredient_name:
ItemKept(item) == Truthy(normalize_ingredient_name(item.ingredient))

RECURSIVE FlatIngredients(_)
FlatIngredients(items) ==
    IF items = << >> THEN << >>
    ELSE (IF ItemKept(items[1]) THEN << FlatEntry(items[1]) >> ELSE << >>)
         \o FlatIngredients(Tail(items))

\* the dict appended to rows for a record that is kept
FlatRow(r) ==
    [source_name  |-> r.source_name,
     source_id    |-> PyStr(r.source_id.v),
     name         |-> r.name,
     category     |-> r.category,
     area         |-> r.area,
     instructions |-> r.instructions,
     thumbnail    |-> r.thumbnail,
     ingredients  |-> FlatIngredients(IngredientItems(r.ingredients))]

\* key = (record.get("source_name"), record.get("source_id"))
RawKey(r) == << r.source_name, r.source_id >>

\* None in key
KeyMissing(r) == r.source_name = PyNone \/ r.source_id = PyNone

\* the loop over recipes_json from record i on, with the keys seen and the
\* rows built so far
RECURSIVE FlattenLoop(_, _, _, _)
FlattenLoop(recs, i, seen, rows) ==
    IF i > Len(recs)
    THEN [raised |-> FALSE,
          cols   |-> IF rows = << >> THEN {} ELSE FLATTEN_COLUMNS,
          rows   |-> rows]
    ELSE IF KeyMissing(recs[i]) \/ RawKey(recs[i]) \in seen
    THEN FlattenLoop(recs, i + 1, seen, rows)
    ELSE IF IngredientsRaise(recs[i].ingredients)
    THEN [raised |-> TRUE, cols |-> {}, rows |-> << >>]
    ELSE FlattenLoop(recs, i + 1, seen \cup { RawKey(recs[i]) },
                     Append(rows, FlatRow(recs[i])))

\* no frame yet
NoFrame == [raised |-> FALSE, cols |-> {}, rows |-> << >>]

\* flatten(recipes_json): pd.DataFrame(rows) of no rows has no columns
flatten(recs) ==
    IF recs = << >>
    THEN [raised |-> FALSE, cols |-> FLATTEN_COLUMNS, rows |-> << >>]
    ELSE FlattenLoop(recs, 1, {}, << >>)

-----------------------------------------------------------------------------
(* DataQualityChecker.  A QualityCheckResult is [check_name, passed,       *)
(* metric_value, threshold]; a metric or threshold is a fraction           *)
(* [num, den], and NoValue stands for None.  A check yields [res, rec]:    *)
(* the result it returns and whether it appended it to self.results.       *)

Rat(n, d) == [num |-> n, den |-> d]

NoValue == [num |-> 0, den |-> 0]

\* a >= b for two fractions
RatGE(a, b) == a.num * b.den >= b.num * a.den

QualityCheckResult(name, passed, metric, threshold) ==
    [check_name |-> name, passed |-> passed,
     metric_value |-> metric, threshold |-> threshold]

\* DataQualityChecker.check_not_null
check_not_null(df, column, threshold) ==
    LET total_rows     == Len(df.rows)
        non_null_count == Cardinality({ i \in 1..total_rows :
                                           df.rows[i][column].t # "none" })
        proportion     == Rat(non_null_count, total_rows)
    IN  IF total_rows = 0
        THEN [res |-> QualityCheckResult("not_null_" \o column, FALSE,
                                         Rat(0, 1), threshold),
              rec |-> FALSE]
        ELSE [res |-> QualityCheckResult("not_null_" \o column,
                                         RatGE(proportion, threshold),
                                         proportion, threshold),
              rec |-> TRUE]

\* DataQualityChecker.check_unique
check_unique(df, column) ==
    LET total_rows      == Len(df.rows)
        unique_count    == Cardinality({ df.rows[i][column] : i \in
                              { j \in 1..total_rows : df.rows[j][column].t # "none" } })
        duplicate_count == total_rows - unique_count
    IN  IF total_rows = 0
        THEN [res |-> QualityCheckResult("unique_" \o column, FALSE,
                                         Rat(0, 1), NoValue),
              rec |-> FALSE]
        ELSE [res |-> QualityCheckResult("unique_" \o column,
                                         duplicate_count = 0,
                                         Rat(duplicate_count, total_rows), NoValue),
              rec |-> TRUE]

\* DataQualityChecker.check_record_count with max_count=None
check_record_count(df, min_count) ==
    [res |-> QualityCheckResult("record_count", ~(Len(df.rows) < min_count),
                                Rat(Len(df.rows), 1), NoValue),
     rec |-> TRUE]

\* the rows of df[['source_name', 'source_id']].dropna()
ComboRows(df) ==
    SelectSeq([i \in 1..Len(df.rows) |->
                  << df.rows[i].source_name, df.rows[i].source_id >>],
              LAMBDA c : c[1].t # "none" /\ c[2].t # "none")

\* HasValidIngredient that counts every row with a non-empty list
HasValidIngredient_AnyEntry(row) == row.ingredients # << >>

\* any(ing.get('ingredient') for ing in ingredients if isinstance(ing, dict))
\* for a row whose list is not empty
HasValidIngredient(row) ==
    \E i \in 1..Len(row.ingredients) : row.ingredients[i].ingredient # << >>

\* the part of check_recipe_data_quality on the required columns
RequiredColumnChecks(df) ==
    [k \in 1..3 |->
        LET col == << "source_name", "source_id", "name" >>[k]
        IN  IF col \in df.cols
            THEN check_not_null(df, col, Rat(1, 1))
            ELSE [res |-> QualityCheckResult("missing_column_" \o col, FALSE,
                                             NoValue, NoValue),
                  rec |-> TRUE]]

\* the unique_source_combo rule
UniqueComboCheck(df) ==
    LET combo           == ComboRows(df)
        duplicate_count == Len(combo) - Cardinality(Range(combo))
    IN  IF {"source_name", "source_id"} \subseteq df.cols /\ Len(combo) > 0
        THEN << [res |-> QualityCheckResult("unique_source_combo",
                                            duplicate_count = 0,
                                            Rat(duplicate_count, 1), NoValue),
                 rec |-> TRUE] >>
        ELSE << >>

\* the recipes_with_ingredients rule
IngredientCoverageCheck(df) ==
    LET total_recipes == Len(df.rows)
        with          == Cardinality({ i \in 1..total_recipes :
                                          HasValidIngredient(df.rows[i]) })
        coverage      == IF total_recipes > 0 THEN Rat(with, total_recipes)
                         ELSE Rat(0, 1)
    IN  IF "ingredients" \in df.cols
        THEN << [res |-> QualityCheckResult("recipes_with_ingredients",
                                            RatGE(coverage, Rat(4, 5)),
                                            coverage, Rat(4, 5)),
                 rec |-> TRUE] >>
        ELSE << >>

\* the category rule
CategoryCheck(df) ==
    IF "category" \in df.cols
    THEN << check_not_null(df, "category", Rat(1, 2)) >>
    ELSE << >>

\* DataQualityChecker.check_recipe_data_quality: the checks it runs, in order
check_recipe_data_quality(df) ==
    << check_record_count(df, 1) >> \o RequiredColumnChecks(df)
       \o UniqueComboCheck(df) \o IngredientCoverageCheck(df) \o CategoryCheck(df)

\* the results of a run of checks, and those of them that were appended
Returned(checks) == [i \in 1..Len(checks) |-> checks[i].res]

Recorded(checks) == Returned(SelectSeq(checks, LAMBDA c : c.rec))

\* DataQualityChecker.get_failed_checks
get_failed_checks(rs) == SelectSeq(rs, LAMBDA r : ~r.passed)

\* DataQualityChecker.assert_all_passed: the ValueError with the rules its
\* message lists, or the value returned
assert_all_passed(rs, raise_on_failure) ==
    LET failed_checks == get_failed_checks(rs)
    IN  IF failed_checks # << >> /\ raise_on_failure
        THEN [raised |-> TRUE, ret |-> FALSE,
              names  |-> [i \in 1..Len(failed_checks) |-> failed_checks[i].check_name]]
        ELSE [raised |-> FALSE, ret |-> Len(failed_checks) = 0, names |-> << >>]

NoOutcome ==
    [raised |-> FALSE, ret |-> FALSE, names |-> << >>, strict |-> FALSE]

-----------------------------------------------------------------------------
(* load_parquet_to_db.  The store is the three MySQL tables, each a set of *)
(* rows, and the AUTO_INCREMENT counters of recipes and ingredients.  Each *)
(* phase runs one INSERT ... SELECT ... ON DUPLICATE KEY UPDATE in its own *)
(* transaction.  The SELECT has no ORDER BY, so the order in which its     *)
(* rows reach the INSERT is not fixed by the code: a phase takes the       *)
(* staged rows in any order.  InnoDB draws an AUTO_INCREMENT value for     *)
(* every row of the statement, also for a row that ends as an update.      *)

\* the injective orders of n rows
Orders(n) == { f \in [1..n -> 1..n] : \A i, j \in 1..n : i # j => f[i] # f[j] }

\* recipes_df: the seven columns, drop_duplicates(subset=[source_name, source_id])
RecipesStage(df) ==
    LET first(i) == \A h \in 1..(i - 1) :
                        << df.rows[h].source_name, df.rows[h].source_id >>
                          # << df.rows[i].source_name, df.rows[i].source_id >>
        kept     == SelectSeq([i \in 1..Len(df.rows) |-> i], first)
    IN  [k \in 1..Len(kept) |->
            [source_name  |-> df.rows[kept[k]].source_name,
             source_id    |-> df.rows[kept[k]].source_id,
             name         |-> df.rows[kept[k]].name,
             category     |-> df.rows[kept[k]].category,
             area         |-> df.rows[kept[k]].area,
             instructions |-> df.rows[kept[k]].instructions,
             thumbnail    |-> df.rows[kept[k]].thumbnail]]

\* UpsertRecipe that keeps a stored category when the staged one is null
UpsertRecipe_KeepNonNull(st, row) ==
    LET hit == { r \in st.tbl : r.source_name = row.source_name
                                /\ r.source_id = row.source_id }
    IN  [tbl  |-> IF hit = {}
                  THEN st.tbl \cup { row @@ [id |-> st.next] }
                  ELSE (st.tbl \ hit)
                       \cup { [row EXCEPT !.category =
                                  IF row.category = PyNone THEN r.category
                                  ELSE row.category] @@ [id |-> r.id] : r \in hit },
         next |-> st.next + 1]

\* upsert_recipes for one staged row
UpsertRecipe(st, row) ==
    LET hit == { r \in st.tbl : r.source_name = row.source_name
                                /\ r.source_id = row.source_id }
    IN  [tbl  |-> IF hit = {}
                  THEN st.tbl \cup { row @@ [id |-> st.next] }
                  ELSE (st.tbl \ hit) \cup { row @@ [id |-> r.id] : r \in hit },
         next |-> st.next + 1]

RECURSIVE UpsertRecipes(_, _, _, _)
UpsertRecipes(st, stage, order, k) ==
    IF k > Len(stage) THEN st
    ELSE UpsertRecipes(UpsertRecipe(st, stage[order[k]]), stage, order, k + 1)

\* the loop over df.iterrows() and row["ingredients"] of phases 2 and 3:
\* one entry per ingredient with a non-empty name
RECURSIVE RowIngredients(_, _)
RowIngredients(row, ings) ==
    IF ings = << >> THEN << >>
    ELSE (IF ings[1].ingredient = << >> THEN << >>
          ELSE << [source_name     |-> row.source_name,
                   source_id       |-> row.source_id,
                   name            |-> Strip(ings[1].ingredient),
                   normalized_name |-> Strip(Lower(Strip(ings[1].ingredient))),
                   measure         |-> ings[1].measure] >>)
         \o RowIngredients(row, Tail(ings))

RECURSIVE AllIngredients(_)
AllIngredients(rows) ==
    IF rows = << >> THEN << >>
    ELSE RowIngredients(rows[1], rows[1].ingredients) \o AllIngredients(Tail(rows))

\* all_ing_rows is empty: pd.DataFrame(all_ing_rows) has no columns, and
\* either drop_duplicates(subset=["normalized_name"]) raises KeyError or, in
\* the pandas versions that return an empty frame as it is, to_sql and the
\* SELECT name, normalized_name on a stage table without these columns raise;
\* each of these ends the call in phase 2 with nothing written
IngredientStageRaises(df) == AllIngredients(df.rows) = << >>

IngredientStage(df) ==
    LET all      == AllIngredients(df.rows)
        first(i) == \A h \in 1..(i - 1) :
                        all[h].normalized_name # all[i].normalized_name
        kept     == SelectSeq([i \in 1..Len(all) |-> i], first)
    IN  [k \in 1..Len(kept) |->
            [name |-> all[kept[k]].name,
             normalized_name |-> all[kept[k]].normalized_name]]

\* UpsertIngredient as REPLACE INTO: the row of the name gets a new id
UpsertIngredient_Replace(st, row) ==
    [tbl  |-> { r \in st.tbl : r.normalized_name # row.normalized_name }
              \cup { row @@ [id |-> st.next] },
     next |-> st.next + 1]

\* upsert_ing for one staged row
UpsertIngredient(st, row) ==
    LET hit == { r \in st.tbl : r.normalized_name = row.normalized_name }
    IN  [tbl  |-> IF hit = {}
                  THEN st.tbl \cup { row @@ [id |-> st.next] }
                  ELSE (st.tbl \ hit) \cup { row @@ [id |-> r.id] : r \in hit },
         next |-> st.next + 1]

RECURSIVE UpsertIngredients(_, _, _, _)
UpsertIngredients(st, stage, order, k) ==
    IF k > Len(stage) THEN st
    ELSE UpsertIngredients(UpsertIngredient(st, stage[order[k]]), stage, order, k + 1)

\* map_df
MappingStage(df) == AllIngredients(df.rows)

\* JoinedLinks without the join: ids that no table row holds
JoinedLinks_NoJoin(s, rtbl, itbl) ==
    { [recipe_id |-> 0, ingredient_id |-> 0, measure |-> s.measure] }

\* the rows the SELECT of insert_mapping yields for one staged row: the join
\* with recipes and ingredients
JoinedLinks(s, rtbl, itbl) ==
    { [recipe_id |-> r.id, ingredient_id |-> i.id, measure |-> s.measure] :
        r \in { x \in rtbl : x.source_name = s.source_name
                             /\ x.source_id = s.source_id },
        i \in { y \in itbl : y.normalized_name = s.normalized_name } }

\* the staged rows for which the join yields no row: the INSERT gets none
\* for them, and the statement raises nothing
Unresolved(stage, rtbl, itbl) ==
    Cardinality({ k \in 1..Len(stage) : JoinedLinks(stage[k], rtbl, itbl) = {} })

\* UpsertLinkRows as a full sync: the recipe's other links are removed
UpsertLinkRows_Sync(tbl, rows) ==
    { l \in tbl : \A n \in rows : n.recipe_id # l.recipe_id } \cup rows

\* one joined row written with ON DUPLICATE KEY UPDATE measure = VALUES(measure)
UpsertLinkRows(tbl, rows) ==
    { l \in tbl : \A n \in rows : n.recipe_id # l.recipe_id
                                  \/ n.ingredient_id # l.ingredient_id }
    \cup rows

RECURSIVE UpsertLinks(_, _, _, _, _, _)
UpsertLinks(tbl, stage, order, k, rtbl, itbl) ==
    IF k > Len(stage) THEN tbl
    ELSE UpsertLinks(UpsertLinkRows(tbl, JoinedLinks(stage[order[k]], rtbl, itbl)),
                     stage, order, k + 1, rtbl, itbl)

\* the dict load_parquet_to_db returns
LoadCounts(r, i, m) ==
    [recipes_loaded |-> r, ingredients_loaded |-> i, mappings_loaded |-> m]

NoCounts == LoadCounts(-1, -1, -1)

\* the three tables
Tables == [recipes |-> recipes, ingredients |-> ingredients,
           recipe_ingredients |-> recipe_ingredients]

NoTables == [recipes |-> {}, ingredients |-> {}, recipe_ingredients |-> {}]

\* the call before: its frame, how it ended and what it returned; the store
\* at the start of this call (tables, autoinc) and at the start of that one
NoPrev == [df |-> NoFrame, pc |-> "idle", ret |-> NoCounts,
           tables |-> NoTables,
           autoinc |-> [recipes |-> 1, ingredients |-> 1],
           start |-> [tables |-> NoTables,
                      autoinc |-> [recipes |-> 1, ingredients |-> 1]]]

\* what a failed transaction leaves: the rows as of the last commit
RollBack_All(committed, start) == start

RollBack(committed, start) == committed

-----------------------------------------------------------------------------
(* validate_data_quality, process_raw and the values recipe_etl_flow keeps *)

\* get_summary that counts every result as passed
get_summary_AllPassed(rs) ==
    [total_checks |-> Len(rs),
     passed       |-> Len(rs),
     failed       |-> 0,
     pass_rate    |-> IF Len(rs) > 0 THEN Rat(Len(rs), Len(rs)) ELSE Rat(0, 1),
     results      |-> [i \in 1..Len(rs) |->
                          [check_name   |-> rs[i].check_name,
                           passed       |-> rs[i].passed,
                           metric_value |-> rs[i].metric_value,
                           threshold    |-> rs[i].threshold]]]

\* DataQualityChecker.get_summary, without the timestamp and the messages
get_summary(rs) ==
    LET total_checks  == Len(rs)
        passed_checks == Len(SelectSeq(rs, LAMBDA r : r.passed))
    IN  [total_checks |-> total_checks,
         passed       |-> passed_checks,
         failed       |-> total_checks - passed_checks,
         pass_rate    |-> IF total_checks > 0
                          THEN Rat(passed_checks, total_checks)
                          ELSE Rat(0, 1),
         results      |-> [i \in 1..Len(rs) |->
                              [check_name   |-> rs[i].check_name,
                               passed       |-> rs[i].passed,
                               metric_value |-> rs[i].metric_value,
                               threshold    |-> rs[i].threshold]]]

\* no summary taken yet
NoSummary ==
    [total_checks |-> -1, passed |-> -1, failed |-> -1,
     pass_rate |-> Rat(0, 1), results |-> << >>]

\* validate_data_quality that asserts whatever raise_on_failure is
validate_data_quality_Strict(df, raise_on_failure) ==
    LET rs == Recorded(check_recipe_data_quality(df))
    IN  [results |-> rs,
         raised  |-> assert_all_passed(rs, TRUE).raised]

\* validate_data_quality(df, raise_on_failure): the results the checker
\* holds, and whether the call raised ValueError
validate_data_quality(df, raise_on_failure) ==
    LET rs == Recorded(check_recipe_data_quality(df))
    IN  [results |-> rs,
         raised  |-> raise_on_failure /\ assert_all_passed(rs, TRUE).raised]

NoParquet == [saved |-> FALSE, df |-> NoFrame]

\* process_raw(latest_filename, validate, raise_on_quality_failure): flatten,
\* the checks, save_parquet; [error, df, parquet]
process_raw(recs, validate, raise_on_quality_failure) ==
    LET df == flatten(recs)
    IN  IF df.raised
        THEN [error |-> "transform", df |-> df, parquet |-> NoParquet]
        ELSE IF validate /\ validate_data_quality(df, raise_on_quality_failure).raised
        THEN [error |-> "quality", df |-> df, parquet |-> NoParquet]
        ELSE [error |-> "none", df |-> df, parquet |-> [saved |-> TRUE, df |-> df]]

-----------------------------------------------------------------------------
(* log_etl_run and table etl_runs.  A nullable column or an optional       *)
(* argument is << >> for NULL / None and << v >> for the value v, so that   *)
(* False and 0 are values.  The columns id and created_at, which no        *)
(* statement of the code reads, are left out.                              *)

Null == << >>

\* the arguments of log_etl_run(run_id, status) with every default
LogCall(run_id, status) ==
    [run_id               |-> run_id,
     status               |-> status,
     raw_file_path        |-> Null,
     parquet_file_path    |-> Null,
     records_extracted    |-> Null,
     records_transformed  |-> Null,
     records_loaded       |-> Null,
     quality_check_passed |-> Null,
     error_message        |-> Null,
     extract_timestamp    |-> Null,
     transform_timestamp  |-> Null,
     load_timestamp       |-> Null]

\* COALESCE that takes the argument even when it is NULL
Coalesce_Overwrite(new, old) == new

\* COALESCE(:param, column)
Coalesce(new, old) == IF new # Null THEN new ELSE old

\* the UPDATE statement on one row
UpdateRun(r, a) ==
    [r EXCEPT
       !.status               = a.status,
       !.raw_file_path        = Coalesce(a.raw_file_path, @),
       !.parquet_file_path    = Coalesce(a.parquet_file_path, @),
       !.records_extracted    = Coalesce(a.records_extracted, @),
       !.records_transformed  = Coalesce(a.records_transformed, @),
       !.records_loaded       = Coalesce(a.records_loaded, @),
       !.quality_check_passed = Coalesce(a.quality_check_passed, @),
       !.error_message        = Coalesce(a.error_message, @),
       !.extract_timestamp    = Coalesce(a.extract_timestamp, @),
       !.transform_timestamp  = Coalesce(a.transform_timestamp, @),
       !.load_timestamp       = Coalesce(a.load_timestamp, @)]

\* the row of the INSERT statement
InsertRun(a, run_timestamp) ==
    [run_id               |-> a.run_id,
     run_timestamp        |-> run_timestamp,
     status               |-> a.status,
     raw_file_path        |-> a.raw_file_path,
     parquet_file_path    |-> a.parquet_file_path,
     records_extracted    |-> a.records_extracted,
     records_transformed  |-> a.records_transformed,
     records_loaded       |-> a.records_loaded,
     quality_check_passed |-> a.quality_check_passed,
     error_message        |-> a.error_message,
     extract_timestamp    |-> a.extract_timestamp,
     transform_timestamp  |-> a.transform_timestamp,
     load_timestamp       |-> a.load_timestamp]

\* log_etl_run(**a) at time now on table tbl: the table afterwards
log_etl_run(tbl, now, a) ==
    IF \E r \in tbl : r.run_id = a.run_id
    THEN { IF r.run_id = a.run_id THEN UpdateRun(r, a) ELSE r : r \in tbl }
    ELSE tbl \cup { InsertRun(a, now) }

\* generate_run_id(), for the one run of the flow
RunId == "etl_run"

\* t_load(path): the task has no return statement
t_load(counts) == Null

\* records_loaded = load_results.get("recipes_loaded", records_transformed)
\*                  if load_results else records_transformed
RecordsLoaded(load_results, records_transformed) ==
    IF load_results # Null /\ load_results[1] # NoCounts
    THEN load_results[1].recipes_loaded
    ELSE records_transformed

\* the log_etl_run call after extract
ExtractedCall(records_extracted, extract_end) ==
    [LogCall(RunId, "running") EXCEPT
       !.raw_file_path     = << "raw" >>,
       !.records_extracted = << records_extracted >>,
       !.extract_timestamp = << extract_end >>]

\* the log_etl_run call after transform and quality validation
TransformedCall(records_transformed, passed, transform_end) ==
    [LogCall(RunId, "running") EXCEPT
       !.parquet_file_path    = << "parquet" >>,
       !.records_transformed  = << records_transformed >>,
       !.quality_check_passed = << passed >>,
       !.transform_timestamp  = << transform_end >>]

\* the log_etl_run call after load
CompletedCall(records_loaded, load_end) ==
    [LogCall(RunId, "completed") EXCEPT
       !.records_loaded = << records_loaded >>,
       !.load_timestamp = << load_end >>]

\* FailedCall that leaves the status at "running"
FailedCall_Running(step) ==
    [LogCall(RunId, "running") EXCEPT !.error_message = << step >>]

\* the log_etl_run call of the except clause; str(e) names the step here
FailedCall(step) ==
    [LogCall(RunId, "failed") EXCEPT !.error_message = << step >>]

-----------------------------------------------------------------------------
(* fetch_spoonacular, with SPOONACULAR_API_KEY set.  A cache file is       *)
(* [exists, data]: data is the list of records in it, each record standing *)
(* for one recipe id.                                                      *)

SPOONACULAR_DEFAULT_TYPES == { "dessert", "breakfast" }

NoFile == [exists |-> FALSE, data |-> << >>]

\* _save_cache(path, data)
SavedFile(data) == [exists |-> TRUE, data |-> data]

\* cache = _load_cache(path) if not refresh else None; cache is None
CacheMiss(file, refresh) == refresh \/ ~file.exists

\* normalized after the bulk request: the details, or nothing when the
\* request raised and the except clause logged it
Normalized(unique_ids, bulk_raises) ==
    IF unique_ids = << >> \/ bulk_raises THEN << >> ELSE unique_ids

\* no pass of the loop yet
NoFetch ==
    [dish_type |-> "none", refresh |-> FALSE, requested |-> FALSE,
     raised |-> FALSE, after_failure |-> FALSE, cache |-> << >>]

-----------------------------------------------------------------------------
(* The normalizer on its own: an input is drawn, normalized, and the       *)
(* result normalized again.                                                *)

MaxWords == 5

Words ==
    { <<"4">>, <<"l","a","r","g","e">>, <<"o","f">>, <<"E","g","g","s">>,
      <<"1","/","2">>, <<"N","/","A">> }

\* " ".join(ws)
RECURSIVE JoinWords(_)
JoinWords(ws) ==
    IF ws = << >> THEN << >>
    ELSE IF Len(ws) = 1 THEN ws[1]
    ELSE ws[1] \o << " " >> \o JoinWords(Tail(ws))

WordSeqs == UNION { [1..n -> Words] : n \in 0..MaxWords }

\* the examples of the normalizer's documentation and test script
STR_4_large_onions == <<"4"," ","l","a","r","g","e"," ","o","n","i","o","n","s">>

STR_3_oz_of_pearl_tapioca ==
    <<"3"," ","o","z"," ","o","f"," ","p","e","a","r","l"," ",
      "t","a","p","i","o","c","a">>

STR_1_12_cups_flour ==
    <<"1"," ","1","/","2"," ","c","u","p","s"," ","f","l","o","u","r">>

STR_N_A == <<"N","/","A">>

ExampleNames ==
    { STR_4_large_onions, STR_3_oz_of_pearl_tapioca, STR_1_12_cups_flour,
      STR_N_A, << >>, <<" "," "," ">>, <<"n","/","a">>,
      <<"N","o","n","e">>, <<"N","U","L","L">>, <<"u","n","k","n","o","w","n">>,
      <<" ","a","."," ">>, <<"r","e","d"," ","o","n","i","o","n","s">>,
      <<"O","n","i","o","n","s">>,
      <<" "," ","b","u","t","t","e","r","\t"," ">> }

NameInputs ==
    { PyNone } \cup { PyStr(s) : s \in ExampleNames }
               \cup { PyStr(JoinWords(ws)) : ws \in WordSeqs }

NormIdle ==
    /\ nameIn = PyNone
    /\ nameOut = Unset
    /\ nameOut2 = Unset
    /\ npc = "idle"
    /\ measureIn = PyNone
    /\ measureOut = Unset
    /\ mpc = "idle"

FlatIdle ==
    /\ raw = << >>
    /\ flat = NoFrame
    /\ fpc = "idle"

QualIdle ==
    /\ qdf = NoFrame
    /\ results = << >>
    /\ evaluated = << >>
    /\ qret = NoOutcome
    /\ summary = NoSummary
    /\ qcalls = 0
    /\ qpc = "idle"

StoreEmpty ==
    /\ recipes = {}
    /\ ingredients = {}
    /\ recipe_ingredients = {}
    /\ autoinc = [recipes |-> 1, ingredients |-> 1]
    /\ ndeletes = 0
    /\ nfails = 0

LoadIdle ==
    /\ ldf = NoFrame
    /\ lpc = "idle"
    /\ lret = NoCounts
    /\ nloads = 0
    /\ prev = NoPrev
    /\ lskipped = 0

MetaIdle ==
    /\ etl_runs = {}
    /\ clock = 0
    /\ calls = << >>

FetchIdle ==
    /\ cache = [d \in SPOONACULAR_DEFAULT_TYPES |-> NoFile]
    /\ bulkFailed = [d \in SPOONACULAR_DEFAULT_TYPES |-> FALSE]
    /\ lastFetch = NoFetch
    /\ nfetches = 0

FlowIdle ==
    /\ wpc = "idle"
    /\ validate_quality = TRUE
    /\ parquet = NoParquet
    /\ quality_passed = TRUE
    /\ error = "none"
    /\ MetaIdle
    /\ FetchIdle

InitNorm ==
    /\ nameIn \in NameInputs
    /\ nameOut = Unset
    /\ nameOut2 = Unset
    /\ npc = "start"
    /\ measureIn = PyNone
    /\ measureOut = Unset
    /\ mpc = "idle"
    /\ FlatIdle
    /\ QualIdle
    /\ StoreEmpty
    /\ LoadIdle
    /\ FlowIdle

NormalizeName ==
    /\ npc = "start"
    /\ nameOut' = normalize_ingredient_name(nameIn)
    /\ npc' = "once"
    /\ UNCHANGED << nameIn, nameOut2, measureIn, measureOut, mpc, notNorm >>

NormalizeAgain ==
    /\ npc = "once"
    /\ nameOut # PyNone
    /\ nameOut2' = normalize_ingredient_name(nameOut)
    /\ npc' = "twice"
    /\ UNCHANGED << nameIn, nameOut, measureIn, measureOut, mpc, notNorm >>

NextNorm == NormalizeName \/ NormalizeAgain

SpecNorm == InitNorm /\ [][NextNorm]_vars

-----------------------------------------------------------------------------
(* normalize_measure on its own: a measure is drawn, as a fetcher hands it *)
(* over or as a caller passes it, and normalized.                          *)

MaxPieces == 3

Pieces ==
    { <<"t","o"," ","t","a","s","t","e">>, <<"T","o"," ","T","a","s","t","e">>,
      <<"t">>, <<"o"," ","t","a","s","t","e">>, <<" ">>,
      <<"S","a","l","t">>, <<"N","/","A">>, <<"n","u","l","l">>,
      <<"1"," ","c","u","p">> }

\* "".join(ps)
RECURSIVE JoinPieces(_)
JoinPieces(ps) ==
    IF ps = << >> THEN << >> ELSE ps[1] \o JoinPieces(Tail(ps))

MeasureInputs ==
    { PyNone } \cup { PyStr(JoinPieces(ps)) :
                        ps \in UNION { [1..n -> Pieces] : n \in 0..MaxPieces } }

InitMeasure ==
    /\ measureIn \in MeasureInputs
    /\ measureOut = Unset
    /\ mpc = "start"
    /\ nameIn = PyNone
    /\ nameOut = Unset
    /\ nameOut2 = Unset
    /\ npc = "idle"
    /\ FlatIdle
    /\ QualIdle
    /\ StoreEmpty
    /\ LoadIdle
    /\ FlowIdle

NormalizeMeasure ==
    /\ mpc = "start"
    /\ measureOut' = normalize_measure(measureIn)
    /\ mpc' = "done"
    /\ UNCHANGED << measureIn, nameIn, nameOut, nameOut2, npc, notNorm >>

NextMeasure == NormalizeMeasure

SpecMeasure == InitMeasure /\ [][NextMeasure]_vars

-----------------------------------------------------------------------------
(* flatten on its own: a raw batch is drawn and flattened.                 *)

MaxBatch == 2

STR_themealdb == <<"t","h","e","m","e","a","l","d","b">>

STR_Cake == <<"C","a","k","e">>

STR_Cake_Dup == <<"C","a","k","e"," ","D","u","p">>

STR_Dessert == <<"D","e","s","s","e","r","t">>

STR_Eggs == <<"E","g","g","s">>

STR_egg == <<"e","g","g">>

\* ingredient entries as the fetchers and a malformed source produce them
ItemEggs == Item(PyStr(STR_Eggs), PyStr(<<"2">>))

ItemEggPadded == Item(PyStr(<<" ","e","g","g"," ">>), PyNone)

ItemBlank ==
    Item(PyStr(<<" "," ">>), PyStr(<<" ","T","o"," ","T","a","s","t","e"," ">>))

ItemNumber == Item(PyInt(<<"5">>), PyStr(<<"1">>))

RawItems == { ItemEggs, ItemEggPadded, ItemBlank, ItemNone }

RawIngredientLists ==
    { << >> } \cup { << a >> : a \in RawItems }
              \cup { << a, b >> : a \in RawItems, b \in RawItems }
              \cup { << ItemEggPadded, ItemBlank, ItemEggs >> }

RawRecord(sn, sid, nm, ings) ==
    [source_name  |-> sn,
     source_id    |-> sid,
     name         |-> nm,
     category     |-> PyStr(STR_Dessert),
     area         |-> PyNone,
     instructions |-> PyNone,
     thumbnail    |-> PyNone,
     ingredients  |-> ings]

\* records that vary in their key, with a well-formed and a malformed
\* ingredients field
KeyRecords ==
    { RawRecord(sn, sid, nm, ings) :
        sn \in { PyStr(STR_themealdb), PyNone },
        sid \in { PyStr(<<"1">>), PyInt(<<"1">>), PyNone },
        nm \in { PyStr(STR_Cake), PyStr(STR_Cake_Dup) },
        ings \in { IngList(<< ItemEggs >>), IngList(<< ItemNumber >>) } }

\* records that vary in their ingredients
ListRecords ==
    { RawRecord(PyStr(STR_themealdb), PyStr(<<"2">>), PyStr(STR_Cake),
                IngList(l)) : l \in RawIngredientLists }
    \cup { RawRecord(PyStr(STR_themealdb), PyStr(<<"2">>), PyStr(STR_Cake), f) :
               f \in { IngNone, IngStr(STR_Eggs) } }

RawRecords == KeyRecords \cup ListRecords

RawBatches == UNION { [1..n -> RawRecords] : n \in 0..MaxBatch }

InitFlatten ==
    /\ raw \in RawBatches
    /\ flat = NoFrame
    /\ fpc = "start"
    /\ NormIdle
    /\ QualIdle
    /\ StoreEmpty
    /\ LoadIdle
    /\ FlowIdle

Flatten ==
    /\ fpc = "start"
    /\ flat' = flatten(raw)
    /\ fpc' = "done"
    /\ UNCHANGED << raw, notFlat >>

NextFlatten == Flatten

SpecFlatten == InitFlatten /\ [][NextFlatten]_vars

-----------------------------------------------------------------------------
(* process_raw with validate=True, after load_raw: the batch is flattened  *)
(* and, when flatten has returned, the checker runs on the frame.          *)

\* validate_data_quality(df, raise_on_failure=False)
ValidateFlat ==
    /\ fpc = "done"
    /\ ~flat.raised
    /\ qpc = "idle"
    /\ qdf' = flat
    /\ results' = validate_data_quality(flat, FALSE).results
    /\ evaluated' = Returned(check_recipe_data_quality(flat))
    /\ qcalls' = 1
    /\ qpc' = "validated"
    /\ UNCHANGED << qret, summary, notQual >>

NextProcess == Flatten \/ ValidateFlat

SpecProcess == InitFlatten /\ [][NextProcess]_vars

-----------------------------------------------------------------------------
(* The checker on its own: a frame is drawn, checks are run on it through  *)
(* the public methods, and assert_all_passed is called.                    *)

MaxChecks == 2

\* rows as flatten writes them, and rows of a frame read from elsewhere
\* (a null name or category)
QRow(sid, nm, cat, ings) ==
    [source_name  |-> PyStr(STR_themealdb),
     source_id    |-> PyStr(sid),
     name         |-> nm,
     category     |-> cat,
     area         |-> PyNone,
     instructions |-> PyNone,
     thumbnail    |-> PyNone,
     ingredients  |-> ings]

QualityRows ==
    { QRow(sid, nm, d[1], d[2]) :
        sid \in { <<"1">>, <<"2">> },
        nm \in { PyStr(STR_Cake), PyNone },
        d \in { << PyStr(STR_Dessert),
                   << [ingredient |-> STR_egg, measure |-> PyStr(<<"2">>)] >> >>,
                << PyNone, << >> >> } }

Frame(cols, rows) == [raised |-> FALSE, cols |-> cols, rows |-> rows]

QualityFrames ==
    { Frame(FLATTEN_COLUMNS, << >>), Frame({}, << >>) }
    \cup { Frame(FLATTEN_COLUMNS, << r >>) : r \in QualityRows }
    \cup { Frame(FLATTEN_COLUMNS, << r, q >>) : r \in QualityRows, q \in QualityRows }

InitQuality ==
    /\ qdf \in QualityFrames
    /\ results = << >>
    /\ evaluated = << >>
    /\ qret = NoOutcome
    /\ summary = NoSummary
    /\ qcalls = 0
    /\ qpc = "checking"
    /\ NormIdle
    /\ FlatIdle
    /\ StoreEmpty
    /\ LoadIdle
    /\ FlowIdle

\* a call of one of the check methods: what it returned, and what it appended
RunChecks(checks) ==
    /\ qpc = "checking"
    /\ qcalls < MaxChecks
    /\ evaluated' = evaluated \o Returned(checks)
    /\ results' = results \o Recorded(checks)
    /\ qcalls' = qcalls + 1
    /\ UNCHANGED << qdf, qret, qpc, summary, notQual >>

CheckRecordCount == RunChecks(<< check_record_count(qdf, 1) >>)

\* the columns a check can be called with: on a frame without rows the
\* checks return before they read the column
CallableColumns(df, columns) ==
    IF df.rows = << >> THEN columns ELSE columns \cap df.cols

CheckNotNull ==
    \E column \in CallableColumns(qdf, { "source_name", "source_id", "name", "category" }) :
      \E threshold \in { Rat(1, 1), Rat(1, 2) } :
         RunChecks(<< check_not_null(qdf, column, threshold) >>)

CheckUnique ==
    \E column \in CallableColumns(qdf, { "source_id", "name" }) :
         RunChecks(<< check_unique(qdf, column) >>)

CheckRecipeDataQuality == RunChecks(check_recipe_data_quality(qdf))

AssertAllPassed ==
    /\ qpc = "checking"
    /\ \E raise_on_failure \in BOOLEAN :
          qret' = assert_all_passed(results, raise_on_failure)
                     @@ [strict |-> raise_on_failure]
    /\ qpc' = "asserted"
    /\ UNCHANGED << qdf, results, evaluated, qcalls, summary, notQual >>

\* checker.get_summary() after the checks
GetSummary ==
    /\ qpc = "checking"
    /\ summary' = get_summary(results)
    /\ qpc' = "summarized"
    /\ UNCHANGED << qdf, results, evaluated, qret, qcalls, notQual >>

NextQuality ==
    \/ GetSummary
    \/ CheckRecordCount
    \/ CheckNotNull
    \/ CheckUnique
    \/ CheckRecipeDataQuality
    \/ AssertAllPassed

SpecQuality == InitQuality /\ [][NextQuality]_vars

-----------------------------------------------------------------------------
(* The checker on batches of up to MaxRecipes recipes of which the first k *)
(* have an ingredient with a name and the others have none: an empty list, *)
(* or an entry whose name is empty.                                        *)

MaxRecipes == 10

DecimalDigits == << "0", "1", "2", "3", "4", "5", "6", "7", "8", "9" >>

\* str(i) for 0 <= i < 100
StrOfNat(i) ==
    IF i < 10 THEN << DecimalDigits[i + 1] >>
    ELSE << DecimalDigits[(i \div 10) + 1], DecimalDigits[(i % 10) + 1] >>

NamelessEntry == [ingredient |-> << >>, measure |-> PyStr(<<"2">>)]

CoverageFrame(n, k, rest) ==
    Frame(FLATTEN_COLUMNS,
          [i \in 1..n |->
              QRow(StrOfNat(i), PyStr(STR_Cake), PyStr(STR_Dessert),
                   IF i <= k
                   THEN << [ingredient |-> STR_egg, measure |-> PyStr(<<"2">>)] >>
                   ELSE rest)])

CoverageFrames ==
    UNION { { CoverageFrame(n, k, rest) :
                k \in 0..n, rest \in { << >>, << NamelessEntry >> } } :
            n \in 0..MaxRecipes }

InitCoverage ==
    /\ qdf \in CoverageFrames
    /\ results = << >>
    /\ evaluated = << >>
    /\ qret = NoOutcome
    /\ summary = NoSummary
    /\ qcalls = 0
    /\ qpc = "checking"
    /\ NormIdle
    /\ FlatIdle
    /\ StoreEmpty
    /\ LoadIdle
    /\ FlowIdle

SpecCoverage == InitCoverage /\ [][NextQuality]_vars

-----------------------------------------------------------------------------
(* The loader on its own: load_parquet_to_db is called up to MaxLoads      *)
(* times on a store that starts empty, each time on a frame of the         *)
(* universe below, so that a call sees the store the calls before it left. *)

MaxLoads == 3

STR_Pie == <<"P","i","e">>

Egg(measure) == [ingredient |-> STR_egg, measure |-> measure]

Flour == [ingredient |-> <<"f","l","o","u","r">>, measure |-> PyNone]

CakeRow(sid, ings) == QRow(sid, PyStr(STR_Cake), PyStr(STR_Dessert), ings)

PieRow(sid, ings) == QRow(sid, PyStr(STR_Pie), PyNone, ings)

\* frames as flatten leaves them in the parquet file: one recipe; the same
\* recipe renamed, with another measure and one more ingredient; a recipe
\* without ingredients; a recipe naming one ingredient twice; two recipes;
\* one recipe twice; and no rows at all
LoadFrames ==
    { Frame(FLATTEN_COLUMNS, << >>),
      Frame({}, << >>),
      Frame(FLATTEN_COLUMNS, << CakeRow(<<"1">>, << Egg(PyStr(<<"2">>)) >>) >>),
      Frame(FLATTEN_COLUMNS, << PieRow(<<"1">>, << Egg(PyStr(<<"3">>)), Flour >>) >>),
      Frame(FLATTEN_COLUMNS, << CakeRow(<<"1">>, << >>) >>),
      Frame(FLATTEN_COLUMNS, << CakeRow(<<"1">>, << Egg(PyStr(<<"2">>)), Egg(PyNone) >>) >>),
      Frame(FLATTEN_COLUMNS, << PieRow(<<"2">>, << Flour >>) >>),
      Frame(FLATTEN_COLUMNS, << CakeRow(<<"1">>, << Egg(PyStr(<<"2">>)) >>),
                                PieRow(<<"2">>, << Flour, Egg(PyStr(<<"3">>)) >>) >>),
      Frame(FLATTEN_COLUMNS, << CakeRow(<<"1">>, << Egg(PyStr(<<"2">>)) >>),
                                PieRow(<<"1">>, << Flour >>) >>) }

InitLoad ==
    /\ StoreEmpty
    /\ LoadIdle
    /\ FlowIdle
    /\ NormIdle
    /\ FlatIdle
    /\ QualIdle

\* df = pd.read_parquet(path); if df.empty: return zeros
ReadParquet(df) ==
    /\ lpc \in { "idle", "done", "raised", "failed1", "failed2", "failed3" }
    /\ ldf' = df
    /\ prev' = [df |-> ldf, pc |-> lpc, ret |-> lret, tables |-> Tables,
                autoinc |-> autoinc,
                start |-> [tables |-> prev.tables, autoinc |-> prev.autoinc]]
    /\ nloads' = nloads + 1
    /\ lskipped' = 0
    /\ IF df.rows = << >> \/ df.cols = {}
       THEN lpc' = "done" /\ lret' = LoadCounts(0, 0, 0)
       ELSE lpc' = "phase1" /\ lret' = NoCounts
    /\ UNCHANGED storeVars

StartLoad ==
    /\ nloads < MaxLoads
    /\ \E df \in LoadFrames : ReadParquet(df)
    /\ UNCHANGED << notLoad, flowVars >>

\* phase 1: recipes_stage and upsert_recipes
UpsertRecipesPhase ==
    /\ lpc = "phase1"
    /\ LET stage == RecipesStage(ldf)
       IN  \E order \in Orders(Len(stage)) :
             LET st == UpsertRecipes([tbl |-> recipes, next |-> autoinc.recipes],
                                     stage, order, 1)
             IN  /\ recipes' = st.tbl
                 /\ autoinc' = [autoinc EXCEPT !.recipes = st.next]
    /\ lpc' = "phase2"
    /\ UNCHANGED << ingredients, recipe_ingredients, ndeletes, nfails, ldf, lret, nloads, prev, lskipped, notLoad, flowVars >>

\* phase 2: the exception on a batch without ingredients
IngredientFrameRaises ==
    /\ lpc = "phase2"
    /\ IngredientStageRaises(ldf)
    /\ lpc' = "raised"
    /\ UNCHANGED << storeVars, ldf, lret, nloads, prev, lskipped, notLoad, flowVars >>

\* phase 2: ingredients_stage and upsert_ing
UpsertIngredientsPhase ==
    /\ lpc = "phase2"
    /\ ~IngredientStageRaises(ldf)
    /\ LET stage == IngredientStage(ldf)
       IN  \E order \in Orders(Len(stage)) :
             LET st == UpsertIngredients([tbl |-> ingredients,
                                          next |-> autoinc.ingredients],
                                         stage, order, 1)
             IN  /\ ingredients' = st.tbl
                 /\ autoinc' = [autoinc EXCEPT !.ingredients = st.next]
    /\ lpc' = "phase3"
    /\ UNCHANGED << recipes, recipe_ingredients, ndeletes, nfails, ldf, lret, nloads, prev, lskipped, notLoad, flowVars >>

\* phase 3: recipe_ing_stage and insert_mapping
InsertMappingPhase ==
    /\ lpc = "phase3"
    /\ LET stage == MappingStage(ldf)
       IN  \E order \in Orders(Len(stage)) :
             recipe_ingredients' =
                 UpsertLinks(recipe_ingredients, stage, order, 1, recipes, ingredients)
    /\ lskipped' = Unresolved(MappingStage(ldf), recipes, ingredients)
    /\ lpc' = "count"
    /\ UNCHANGED << recipes, ingredients, autoinc, ndeletes, nfails, ldf, lret, nloads, prev,
                    notLoad, flowVars >>

\* the three SELECT COUNT(*) and the return
CountTables ==
    /\ lpc = "count"
    /\ lret' = LoadCounts(Cardinality(recipes), Cardinality(ingredients),
                          Cardinality(recipe_ingredients))
    /\ lpc' = "done"
    /\ UNCHANGED << storeVars, ldf, nloads, prev, lskipped, notLoad, flowVars >>

LoadSteps ==
    \/ UpsertRecipesPhase
    \/ IngredientFrameRaises
    \/ UpsertIngredientsPhase
    \/ InsertMappingPhase
    \/ CountTables

NextLoad == StartLoad \/ LoadSteps

SpecLoad == InitLoad /\ [][NextLoad]_vars

-----------------------------------------------------------------------------
(* The loader with failing transactions: the statement of a phase, or the  *)
(* connection under it, can fail.  The engine.begin() block rolls the      *)
(* transaction back and the exception leaves load_parquet_to_db; what the  *)
(* earlier blocks committed stays.  InnoDB does not give back the          *)
(* AUTO_INCREMENT values the failed statement had drawn.                   *)

MaxFailures == 1

\* frames of one recipe: with an ingredient, renamed with two, naming one
\* twice, without any; and one of two recipes
FaultyFrames ==
    { Frame(FLATTEN_COLUMNS, << CakeRow(<<"1">>, << Egg(PyStr(<<"2">>)) >>) >>),
      Frame(FLATTEN_COLUMNS, << CakeRow(<<"1">>, << >>) >>),
      Frame(FLATTEN_COLUMNS, << PieRow(<<"1">>, << Egg(PyStr(<<"3">>)), Flour >>) >>),
      Frame(FLATTEN_COLUMNS, << CakeRow(<<"1">>, << Egg(PyStr(<<"2">>)), Egg(PyNone) >>) >>),
      Frame(FLATTEN_COLUMNS, << CakeRow(<<"1">>, << Egg(PyStr(<<"2">>)) >>),
                                PieRow(<<"2">>, << Flour >>) >>) }

StartFaultyLoad ==
    /\ nloads < MaxLoads
    /\ \E df \in FaultyFrames : ReadParquet(df)
    /\ UNCHANGED << notLoad, flowVars >>

RecipePhaseFails ==
    /\ nfails < MaxFailures
    /\ nfails' = nfails + 1
    /\ lpc = "phase1"
    /\ recipes' = RollBack(Tables, prev.tables).recipes
    /\ \E drawn \in 0..Len(RecipesStage(ldf)) :
          autoinc' = [autoinc EXCEPT !.recipes = @ + drawn]
    /\ lpc' = "failed1"
    /\ UNCHANGED << ingredients, recipe_ingredients, ndeletes, ldf, lret, nloads, prev,
                    lskipped, notLoad, flowVars >>

IngredientPhaseFails ==
    /\ nfails < MaxFailures
    /\ nfails' = nfails + 1
    /\ lpc = "phase2"
    /\ ~IngredientStageRaises(ldf)
    /\ recipes' = RollBack(Tables, prev.tables).recipes
    /\ ingredients' = RollBack(Tables, prev.tables).ingredients
    /\ \E drawn \in 0..Len(IngredientStage(ldf)) :
          autoinc' = [autoinc EXCEPT !.ingredients = @ + drawn]
    /\ lpc' = "failed2"
    /\ UNCHANGED << recipe_ingredients, ndeletes, ldf, lret, nloads, prev,
                    lskipped, notLoad, flowVars >>

LinkPhaseFails ==
    /\ nfails < MaxFailures
    /\ nfails' = nfails + 1
    /\ lpc = "phase3"
    /\ recipes' = RollBack(Tables, prev.tables).recipes
    /\ ingredients' = RollBack(Tables, prev.tables).ingredients
    /\ recipe_ingredients' = RollBack(Tables, prev.tables).recipe_ingredients
    /\ lpc' = "failed3"
    /\ UNCHANGED << autoinc, ndeletes, ldf, lret, nloads, prev,
                    lskipped, notLoad, flowVars >>

NextLoadFaulty ==
    \/ StartFaultyLoad
    \/ LoadSteps
    \/ RecipePhaseFails
    \/ IngredientPhaseFails
    \/ LinkPhaseFails

SpecLoadFaulty == InitLoad /\ [][NextLoadFaulty]_vars

-----------------------------------------------------------------------------
(* The loader on a store it shares: the phases are separate transactions   *)
(* and hold no lock between them, so another client of the database can    *)
(* delete a recipes or ingredients row at any point of a load; ON DELETE   *)
(* CASCADE removes the row's links with it.                                *)

MaxDeletes == 1

DeleteRecipe ==
    /\ ndeletes < MaxDeletes
    /\ \E r \in recipes :
          /\ recipes' = recipes \ { r }
          /\ recipe_ingredients' = { l \in recipe_ingredients : l.recipe_id # r.id }
    /\ ndeletes' = ndeletes + 1
    /\ UNCHANGED << ingredients, autoinc, nfails, loadVars, notLoad, flowVars >>

DeleteIngredient ==
    /\ ndeletes < MaxDeletes
    /\ \E i \in ingredients :
          /\ ingredients' = ingredients \ { i }
          /\ recipe_ingredients' = { l \in recipe_ingredients : l.ingredient_id # i.id }
    /\ ndeletes' = ndeletes + 1
    /\ UNCHANGED << recipes, autoinc, nfails, loadVars, notLoad, flowVars >>

NextLoadShared == StartLoad \/ LoadSteps \/ DeleteRecipe \/ DeleteIngredient

SpecLoadShared == InitLoad /\ [][NextLoadShared]_vars

-----------------------------------------------------------------------------
(* recipe_etl_flow: one run on an empty store.  The extract step leaves a  *)
(* raw batch of the universe below or raises; every exception of a later   *)
(* step reaches the except clause, which records the failure and raises    *)
(* again.                                                                  *)

RecordCake == RawRecord(PyStr(STR_themealdb), PyStr(<<"1">>), PyStr(STR_Cake),
                        IngList(<< ItemEggs >>))

RecordCakeDup == RawRecord(PyStr(STR_themealdb), PyStr(<<"1">>), PyStr(STR_Cake_Dup),
                           IngList(<< >>))

\* records of a second recipe: one naming an ingredient twice, one without
\* ingredients, one without a name; a record without a source, and one
\* whose ingredient is a number
FlowRecords ==
    { RecordCake, RecordCakeDup,
      RawRecord(PyStr(STR_themealdb), PyStr(<<"2">>), PyStr(STR_Cake),
                IngList(<< ItemEggs, ItemEggPadded >>)),
      RawRecord(PyStr(STR_themealdb), PyStr(<<"2">>), PyStr(STR_Cake), IngNone),
      RawRecord(PyStr(STR_themealdb), PyStr(<<"2">>), PyNone, IngList(<< ItemEggs >>)),
      RawRecord(PyNone, PyStr(<<"1">>), PyStr(STR_Cake), IngList(<< ItemEggs >>)),
      RawRecord(PyStr(STR_themealdb), PyInt(<<"1">>), PyStr(STR_Cake),
                IngList(<< ItemNumber >>)) }

FlowBatches ==
    { << >> } \cup { << a >> : a \in FlowRecords }
              \cup { << a, b >> : a \in FlowRecords, b \in FlowRecords }

InitFlow ==
    /\ wpc = "start"
    /\ validate_quality \in BOOLEAN
    /\ parquet = NoParquet
    /\ quality_passed = TRUE
    /\ error = "none"
    /\ MetaIdle
    /\ FetchIdle
    /\ StoreEmpty
    /\ LoadIdle
    /\ NormIdle
    /\ FlatIdle
    /\ QualIdle

\* a log_etl_run call of the flow; the clock advances with it
LogRun(a) ==
    /\ etl_runs' = log_etl_run(etl_runs, clock, a)
    /\ clock' = clock + 1
    /\ UNCHANGED << calls, fetchVars >>

\* t_extract returns the path of the raw file; the run is logged as running
TExtract ==
    /\ wpc = "start"
    /\ \E batch \in FlowBatches :
          /\ raw' = batch
          /\ LogRun(ExtractedCall(Len(batch), clock))
    /\ wpc' = "extracted"
    /\ UNCHANGED << flat, fpc, normVars, qualVars, storeVars, loadVars,
                    validate_quality, parquet, quality_passed, error >>

\* t_extract raises: a request of fetch_and_save failed
TExtractRaises ==
    /\ wpc = "start"
    /\ wpc' = "failed"
    /\ error' = "extract"
    /\ LogRun(FailedCall("extract"))
    /\ UNCHANGED << flatVars, normVars, qualVars, storeVars, loadVars,
                    validate_quality, parquet, quality_passed >>

\* t_transform: process_raw(raw_path, validate=validate_quality)
TTransform ==
    /\ wpc = "extracted"
    /\ LET out == process_raw(raw, validate_quality, FALSE)
       IN  /\ flat' = out.df
           /\ parquet' = out.parquet
           /\ error' = out.error
           /\ wpc' = IF out.error = "none" THEN "transformed" ELSE "failed"
           /\ IF out.error = "none"
              THEN UNCHANGED << metaVars, fetchVars >>
              ELSE LogRun(FailedCall(out.error))
    /\ fpc' = "done"
    /\ UNCHANGED << raw, normVars, qualVars, storeVars, loadVars,
                    validate_quality, quality_passed >>

\* t_validate_quality(parquet_path), quality_passed and the second
\* log_etl_run call
TValidateQuality ==
    /\ wpc = "transformed"
    /\ validate_quality
    /\ LET out == validate_data_quality(parquet.df, FALSE)
           passed == get_summary(out.results).failed = 0
       IN  /\ qdf' = parquet.df
           /\ results' = out.results
           /\ quality_passed' = passed
           /\ error' = IF out.raised THEN "quality" ELSE "none"
           /\ wpc' = IF out.raised THEN "failed" ELSE "validated"
           /\ IF out.raised
              THEN LogRun(FailedCall("quality"))
              ELSE LogRun(TransformedCall(Len(parquet.df.rows), passed, clock))
    /\ UNCHANGED << evaluated, qret, qcalls, qpc, summary, normVars, flatVars, storeVars,
                    loadVars, validate_quality, parquet >>

\* validate_quality is False: quality_passed stays True
SkipValidateQuality ==
    /\ wpc = "transformed"
    /\ ~validate_quality
    /\ wpc' = "validated"
    /\ LogRun(TransformedCall(Len(parquet.df.rows), quality_passed, clock))
    /\ UNCHANGED << normVars, flatVars, qualVars, storeVars, loadVars,
                    validate_quality, parquet, quality_passed, error >>

\* t_create_tables and the call of t_load(parquet_path)
TLoad ==
    /\ wpc = "validated"
    /\ ReadParquet(parquet.df)
    /\ wpc' = "loading"
    /\ UNCHANGED << notLoad, validate_quality, parquet, quality_passed, error,
                    metaVars, fetchVars >>

\* t_load returned: records_loaded and the last log_etl_run call
FlowCompleted ==
    /\ wpc = "loading"
    /\ lpc = "done"
    /\ wpc' = "completed"
    /\ LogRun(CompletedCall(RecordsLoaded(t_load(lret), Len(parquet.df.rows)),
                            clock))
    /\ UNCHANGED << notLoad, storeVars, loadVars,
                    validate_quality, parquet, quality_passed, error >>

\* t_load raised
FlowLoadRaised ==
    /\ wpc = "loading"
    /\ lpc = "raised"
    /\ wpc' = "failed"
    /\ error' = "load"
    /\ LogRun(FailedCall("load"))
    /\ UNCHANGED << notLoad, storeVars, loadVars,
                    validate_quality, parquet, quality_passed >>

NextFlow ==
    \/ TExtract
    \/ TExtractRaises
    \/ TTransform
    \/ TValidateQuality
    \/ SkipValidateQuality
    \/ TLoad
    \/ LoadSteps
    \/ FlowCompleted
    \/ FlowLoadRaised

SpecFlow == InitFlow /\ [][NextFlow]_vars

-----------------------------------------------------------------------------
(* recipe_etl_flow on a store that an earlier run has filled: the tables   *)
(* hold one recipe with one ingredient that the batches below do not name. *)

StockedRecipes ==
    { [id |-> 1, source_name |-> PyStr(STR_themealdb), source_id |-> PyStr(<<"9">>),
       name |-> PyStr(STR_Pie), category |-> PyStr(STR_Dessert), area |-> PyNone,
       instructions |-> PyNone, thumbnail |-> PyNone] }

StockedIngredients ==
    { [id |-> 1, name |-> Flour.ingredient, normalized_name |-> Flour.ingredient] }

StockedLinks ==
    { [recipe_id |-> 1, ingredient_id |-> 1, measure |-> PyNone] }

InitFlowStocked ==
    /\ wpc = "start"
    /\ validate_quality \in BOOLEAN
    /\ parquet = NoParquet
    /\ quality_passed = TRUE
    /\ error = "none"
    /\ MetaIdle
    /\ FetchIdle
    /\ recipes = StockedRecipes
    /\ ingredients = StockedIngredients
    /\ recipe_ingredients = StockedLinks
    /\ autoinc = [recipes |-> 2, ingredients |-> 2]
    /\ ndeletes = 0
    /\ nfails = 0
    /\ LoadIdle
    /\ NormIdle
    /\ FlatIdle
    /\ QualIdle

SpecFlowStocked == InitFlowStocked /\ [][NextFlow]_vars

-----------------------------------------------------------------------------
(* log_etl_run on its own: up to MaxCalls calls for two run ids.           *)

MaxCalls == 2

\* the calls: for a run id, a status and some of the optional arguments
LogCalls ==
    { [LogCall(run_id, status) EXCEPT
         !.records_loaded       = loaded,
         !.quality_check_passed = passed,
         !.error_message        = message] :
        run_id \in { "etl_a", "etl_b" },
        status \in { "running", "completed", "failed" },
        loaded \in { Null, << 0 >>, << 5 >> },
        passed \in { Null, << FALSE >> },
        message \in { Null, << "boom" >> } }

InitMeta ==
    /\ MetaIdle
    /\ FetchIdle
    /\ wpc = "idle"
    /\ validate_quality = TRUE
    /\ parquet = NoParquet
    /\ quality_passed = TRUE
    /\ error = "none"
    /\ StoreEmpty
    /\ LoadIdle
    /\ NormIdle
    /\ FlatIdle
    /\ QualIdle

LogEtlRun ==
    /\ Len(calls) < MaxCalls
    /\ \E a \in LogCalls :
          /\ etl_runs' = log_etl_run(etl_runs, clock, a)
          /\ calls' = Append(calls, [args |-> a, at |-> clock])
    /\ clock' = clock + 1
    /\ UNCHANGED << wpc, validate_quality, parquet, quality_passed, error,
                    fetchVars, normVars, flatVars, qualVars, storeVars, loadVars >>

NextMeta == LogEtlRun

SpecMeta == InitMeta /\ [][NextMeta]_vars

-----------------------------------------------------------------------------
(* fetch_spoonacular on its own: up to MaxFetches passes of its loop, each *)
(* for a dish type and a refresh flag, against an API whose search answers *)
(* with some recipe ids or fails, and whose bulk request answers or fails. *)

MaxFetches == 3

\* the ids a search returns
SearchResults == { << >>, << "1" >>, << "1", "2" >> }

InitFetch == InitMeta

notFetch ==
    << wpc, validate_quality, parquet, quality_passed, error, metaVars,
       normVars, flatVars, qualVars, storeVars, loadVars >>

\* the else branch: the records are taken from the cache file
FetchCached ==
    /\ nfetches < MaxFetches
    /\ \E dish_type \in SPOONACULAR_DEFAULT_TYPES, refresh \in BOOLEAN :
          /\ ~CacheMiss(cache[dish_type], refresh)
          /\ lastFetch' = [dish_type |-> dish_type, refresh |-> refresh,
                           requested |-> FALSE, raised |-> FALSE,
                           after_failure |-> bulkFailed[dish_type],
                           cache |-> cache[dish_type].data]
    /\ nfetches' = nfetches + 1
    /\ UNCHANGED << cache, bulkFailed, notFetch >>

\* cache is None: the search and the bulk request are sent, and what came
\* of them is saved as the cache file
FetchFromApi ==
    /\ nfetches < MaxFetches
    /\ \E dish_type \in SPOONACULAR_DEFAULT_TYPES, refresh \in BOOLEAN,
          unique_ids \in SearchResults, bulk_raises \in BOOLEAN :
          /\ CacheMiss(cache[dish_type], refresh)
          /\ bulk_raises => unique_ids # << >>
          /\ cache' = [cache EXCEPT
                          ![dish_type] = SavedFile(Normalized(unique_ids, bulk_raises))]
          /\ bulkFailed' = [bulkFailed EXCEPT ![dish_type] = bulk_raises]
          /\ lastFetch' = [dish_type |-> dish_type, refresh |-> refresh,
                           requested |-> TRUE, raised |-> FALSE,
                           after_failure |-> bulkFailed[dish_type],
                           cache |-> Normalized(unique_ids, bulk_raises)]
    /\ nfetches' = nfetches + 1
    /\ UNCHANGED notFetch

\* cache is None and response.raise_for_status() of the search raises: the
\* exception leaves fetch_spoonacular
SearchRaises ==
    /\ nfetches < MaxFetches
    /\ \E dish_type \in SPOONACULAR_DEFAULT_TYPES, refresh \in BOOLEAN :
          /\ CacheMiss(cache[dish_type], refresh)
          /\ lastFetch' = [dish_type |-> dish_type, refresh |-> refresh,
                           requested |-> TRUE, raised |-> TRUE,
                           after_failure |-> bulkFailed[dish_type],
                           cache |-> << >>]
    /\ nfetches' = nfetches + 1
    /\ UNCHANGED << cache, bulkFailed, notFetch >>

NextFetch == FetchCached \/ FetchFromApi \/ SearchRaises

SpecFetch == InitFetch /\ [][NextFetch]_vars

-----------------------------------------------------------------------------
(* Claims about the normalizer, checked under SpecNorm *)

STR_onion == <<"o","n","i","o","n">>

STR_pearl_tapioca == <<"p","e","a","r","l"," ","t","a","p","i","o","c","a">>

STR_flour == <<"f","l","o","u","r">>

\* C3: normalize_ingredient_name is a fixed point on its own results: when
\* normalize_ingredient_name(x) = y and y is not None, then
\* normalize_ingredient_name(y) = y.
C3_FixedPoint == npc = "twice" => nameOut2 = nameOut

\* C4: the three documented quantity prefixes are stripped: "4 large onions"
\* yields "onion", "3 oz of pearl tapioca" yields "pearl tapioca" and
\* "1 1/2 cups flour" yields "flour".
C4_PrefixExamples ==
    npc # "start" =>
        /\ (nameIn = PyStr(STR_4_large_onions) => nameOut = PyStr(STR_onion))
        /\ (nameIn = PyStr(STR_3_oz_of_pearl_tapioca)
               => nameOut = PyStr(STR_pearl_tapioca))
        /\ (nameIn = PyStr(STR_1_12_cups_flour) => nameOut = PyStr(STR_flour))

\* C5: None is returned for a null input, an empty or whitespace-only input,
\* for "N/A", and for every input whose processed result is shorter than 2
\* characters or is one of the stoplist words.
C5_Rejection ==
    (/\ npc # "start"
     /\ \/ nameIn = PyNone
        \/ Strip(nameIn.v) = << >>
        \/ nameIn.v = STR_N_A
        \/ Len(ProcessedName(nameIn.v)) < 2
        \/ ProcessedName(nameIn.v) \in NameStoplist)
    => nameOut = PyNone

-----------------------------------------------------------------------------
(* Claims about flatten, checked under SpecFlatten *)

\* the key of a raw record as the output stores it: source_id as a string
CoercedKey(r) == << r.source_name, PyStr(r.source_id.v) >>

OutKey(row) == << row.source_name, row.source_id >>

\* the first record of the batch that carries the stored key K
FirstWithKey(K) ==
    CHOOSE k \in 1..Len(raw) :
        /\ ~KeyMissing(raw[k]) /\ CoercedKey(raw[k]) = K
        /\ \A h \in 1..(k - 1) : KeyMissing(raw[h]) \/ CoercedKey(raw[h]) # K

\* C1: the output of flatten holds exactly one entry per (source_name,
\* source_id) key, built from the first record of the input that carries the
\* key, and no two output entries have the same key as stored (source_id
\* coerced to a string), also when source_id values are not strings.
C1_Dedup ==
    (fpc = "done" /\ ~flat.raised) =>
        /\ \A i, j \in 1..Len(flat.rows) :
              i # j => OutKey(flat.rows[i]) # OutKey(flat.rows[j])
        /\ \A k \in 1..Len(raw) :
              ~KeyMissing(raw[k]) =>
                 /\ Cardinality({ i \in 1..Len(flat.rows) :
                        OutKey(flat.rows[i]) = CoercedKey(raw[k]) }) = 1
                 /\ \E i \in 1..Len(flat.rows) :
                        flat.rows[i] = FlatRow(raw[FirstWithKey(CoercedKey(raw[k]))])

\* a record with its natural key whose ingredients field is a list (or None)
\* of dict entries with a string or None name
WellFormed(r) == ~KeyMissing(r) /\ ~IngredientsRaise(r.ingredients)

\* C7: flatten never raises on a malformed record: a record without its key
\* or an ingredient entry that cannot be parsed is skipped, and every
\* well-formed record of the batch is still present in the output.
C7_NeverRaises ==
    fpc = "done" =>
        /\ ~flat.raised
        /\ \A k \in 1..Len(raw) :
              (WellFormed(raw[k]) /\ FirstWithKey(CoercedKey(raw[k])) = k)
                 => \E i \in 1..Len(flat.rows) : flat.rows[i] = FlatRow(raw[k])

-----------------------------------------------------------------------------
(* Claims about the checker, checked under SpecQuality *)

\* C9: in strict mode assert_all_passed raises one ValueError whenever a rule
\* evaluated on the batch failed, and its message names every failed rule;
\* when no rule failed it raises nothing and returns True; with
\* raise_on_failure=False it never raises and returns False when a rule
\* failed.
C9_AssertAllPassed ==
    qpc = "asserted" =>
        LET failed == get_failed_checks(evaluated)
        IN  /\ (qret.strict /\ failed # << >>) =>
                  /\ qret.raised
                  /\ \A i \in 1..Len(failed) :
                        failed[i].check_name \in Range(qret.names)
            /\ failed = << >> => (~qret.raised /\ qret.ret)
            /\ ~qret.strict => ~qret.raised
            /\ (~qret.strict /\ failed # << >>) => ~qret.ret

\* C10: check_recipe_data_quality loses no result: every result it returns,
\* also on the empty batch, is recorded in the checker's results, so the
\* number of accumulated results and the failed checks reflect every rule
\* that was run.
C10_NoLostResult ==
    (qcalls = 1 /\ evaluated = Returned(check_recipe_data_quality(qdf))) =>
        /\ results = evaluated
        /\ get_failed_checks(results) = get_failed_checks(evaluated)

\* C2: when load_parquet_to_db has run twice in succession on the same
\* frame, the second run leaves the three tables with the rows (keys, column
\* values, surrogate ids) the first run left, and ends as the first did, with
\* the same counts.
C2_Idempotent ==
    (/\ nloads >= 2
     /\ lpc \in { "done", "raised" }
     /\ prev.df = ldf)
    => (/\ Tables = prev.tables
        /\ lpc = prev.pc
        /\ lret = prev.ret)


\* the raw batch of the end-to-end example
CakeBatch == << RecordCake, RecordCakeDup >>

\* C6: on an empty store, for the batch [Cake with Eggs "2", Cake Dup without
\* ingredients] under the key themealdb/"1", flatten yields one recipe
\* (source_id "1", name "Cake") with the one ingredient (egg, "2"), the run
\* does not fail, and once the load has ended the store holds one recipes
\* row, one ingredients row with normalized_name "egg" and one
\* recipe_ingredients row.
C6_EndToEnd ==
    (raw = CakeBatch)
    => /\ wpc # "failed"
       /\ (fpc = "done") =>
            /\ Len(flat.rows) = 1
            /\ flat.rows[1].source_id = PyStr(<<"1">>)
            /\ flat.rows[1].name = PyStr(STR_Cake)
            /\ flat.rows[1].ingredients
                 = << [ingredient |-> STR_egg, measure |-> PyStr(<<"2">>)] >>
       /\ (wpc = "completed") =>
            /\ Cardinality(recipes) = 1
            /\ Cardinality(ingredients) = 1
            /\ \A i \in ingredients : i.normalized_name = STR_egg
            /\ Cardinality(recipe_ingredients) = 1

\* a run on the example batch that has ended
C6_Witness ==
    /\ raw = CakeBatch
    /\ wpc = "completed"
    /\ Cardinality(recipe_ingredients) = 1

\* C8: with the default arguments no exception of a run comes from the
\* quality checks, whatever the verdicts of the rules: a run whose extract
\* and transform steps succeeded has saved the parquet file, and it ends
\* only after it has called load_parquet_to_db, completed or failed by an
\* exception of the load itself.
C8_Advisory ==
    /\ error # "quality"
    /\ (wpc \in { "transformed", "validated", "loading", "completed" })
         => parquet.saved
    /\ (wpc \in { "loading", "completed" }) => (nloads = 1)
    /\ (wpc = "failed" /\ error \notin { "extract", "transform" })
         => (parquet.saved /\ nloads = 1 /\ error = "load")

\* a run with failed quality checks whose load has ended
C8_Witness ==
    /\ wpc = "completed"
    /\ validate_quality
    /\ ~quality_passed
    /\ get_failed_checks(results) # << >>
    /\ nloads = 1
    /\ recipes # {}

\* the recipes of the checked frame that have an entry with a non-empty name
NamedRecipes ==
    { i \in 1..Len(qdf.rows) :
        \E j \in 1..Len(qdf.rows[i].ingredients) :
            qdf.rows[i].ingredients[j].ingredient # << >> }

\* C11: every recipes_with_ingredients result the checker holds has the
\* metric (recipes with a named ingredient) / (recipes), 0 on a frame
\* without rows, and passed exactly when that fraction is at least 4/5.
C11_Coverage ==
    \A x \in 1..Len(results) :
        (results[x].check_name = "recipes_with_ingredients")
        => LET r    == results[x]
               with == Cardinality(NamedRecipes)
               n    == Len(qdf.rows)
           IN  /\ r.metric_value # NoValue
               /\ r.metric_value.den > 0
               /\ IF n = 0
                  THEN r.metric_value.num = 0 /\ ~r.passed
                  ELSE /\ r.metric_value.num * n = with * r.metric_value.den
                       /\ r.passed <=> (5 * with >= 4 * n)

\* 7 of 10 recipes have a named ingredient, the others an entry without a
\* name, and the rule has failed
C11_Witness ==
    /\ Len(qdf.rows) = 10
    /\ Cardinality(NamedRecipes) = 7
    /\ \A i \in 1..Len(qdf.rows) : qdf.rows[i].ingredients # << >>
    /\ \E x \in 1..Len(results) :
          /\ results[x].check_name = "recipes_with_ingredients"
          /\ ~results[x].passed

\* C12: load_parquet_to_db never gets past the link phase, to its counts and
\* its return, when the join of that phase has left a staged mapping row
\* without a recipes row or without an ingredients row.
C12_UnresolvedAborts ==
    (lpc \in { "count", "done" }) => (lskipped = 0)

\* C13: within load_parquet_to_db the recipes table is written only by the
\* step from phase 1 to phase 2, the ingredients table only by the step from
\* phase 2 to phase 3 and the recipe_ingredients table only by the step from
\* phase 3 on; a phase is entered only from the phase before it; and every
\* link the link step writes refers to a recipes row and an ingredients row
\* that were in the store before that step.
C13_PhaseOrder ==
    [][ /\ (recipes' # recipes) => (lpc = "phase1" /\ lpc' = "phase2")
        /\ (ingredients' # ingredients) => (lpc = "phase2" /\ lpc' = "phase3")
        /\ (recipe_ingredients' # recipe_ingredients)
             => (lpc = "phase3" /\ lpc' = "count")
        /\ (lpc' = "phase2" /\ lpc # "phase2") => (lpc = "phase1")
        /\ (lpc' = "phase3" /\ lpc # "phase3") => (lpc = "phase2")
        /\ (lpc' = "count" /\ lpc # "count") => (lpc = "phase3")
        /\ \A l \in recipe_ingredients' \ recipe_ingredients :
              /\ \E r \in recipes : r.id = l.recipe_id
              /\ \E i \in ingredients : i.id = l.ingredient_id ]_vars

\* the link phase of a second load has written a link
C13_Witness ==
    /\ lpc = "count"
    /\ nloads = 2
    /\ recipe_ingredients # prev.tables.recipe_ingredients

\* the measures the frame being loaded lists for the pair of a link
ListedMeasures(l) ==
    { s.measure : s \in
        { t \in Range(MappingStage(ldf)) :
            /\ \E r \in recipes : /\ r.id = l.recipe_id
                                  /\ r.source_name = t.source_name
                                  /\ r.source_id = t.source_id
            /\ \E i \in ingredients : /\ i.id = l.ingredient_id
                                      /\ i.normalized_name = t.normalized_name } }

\* C14: no step of a load deletes a row: every recipes, ingredients and
\* recipe_ingredients row is still there after it, under the same key; there
\* is at most one link per (recipe_id, ingredient_id); and after the link
\* step a link whose pair the frame lists carries a measure the frame lists
\* for it, while a link whose pair the frame does not list is as it was.
C14_Additive ==
    [][ /\ \A r \in recipes : \E q \in recipes' :
              /\ q.id = r.id
              /\ q.source_name = r.source_name
              /\ q.source_id = r.source_id
        /\ \A i \in ingredients : \E q \in ingredients' :
              q.id = i.id /\ q.normalized_name = i.normalized_name
        /\ \A l \in recipe_ingredients : \E q \in recipe_ingredients' :
              q.recipe_id = l.recipe_id /\ q.ingredient_id = l.ingredient_id
        /\ \A l, q \in recipe_ingredients' :
              (l.recipe_id = q.recipe_id /\ l.ingredient_id = q.ingredient_id)
              => (l = q)
        /\ (lpc = "phase3" /\ lpc' = "count")
             => \A l \in recipe_ingredients' :
                  IF ListedMeasures(l) # {}
                  THEN l.measure \in ListedMeasures(l)
                  ELSE l \in recipe_ingredients ]_vars

\* a load has ended whose frame lists one ingredient of a recipe; the link
\* to another ingredient, written by an earlier load, is still there
C14_Witness ==
    /\ lpc = "done"
    /\ nloads >= 2
    /\ \E l, q \in recipe_ingredients :
          /\ l.recipe_id = q.recipe_id
          /\ ListedMeasures(l) = {}
          /\ ListedMeasures(q) # {}

\* C15: after the recipe phase, for every recipe of the frame (the first
\* frame row of its key) the recipes table holds exactly one row with that
\* (source_name, source_id), and its name, category, area, instructions and
\* thumbnail are the frame's, a null of the frame included.
C15_Overwrite ==
    (lpc = "phase2")
    => \A i \in 1..Len(ldf.rows) :
          (\A h \in 1..(i - 1) :
               \/ ldf.rows[h].source_name # ldf.rows[i].source_name
               \/ ldf.rows[h].source_id # ldf.rows[i].source_id)
          => LET hit == { r \in recipes :
                            /\ r.source_name = ldf.rows[i].source_name
                            /\ r.source_id = ldf.rows[i].source_id }
             IN  /\ Cardinality(hit) = 1
                 /\ \A r \in hit :
                       /\ r.name = ldf.rows[i].name
                       /\ r.category = ldf.rows[i].category
                       /\ r.area = ldf.rows[i].area
                       /\ r.instructions = ldf.rows[i].instructions
                       /\ r.thumbnail = ldf.rows[i].thumbnail

\* the recipe phase has overwritten a stored category with the null of the
\* frame
C15_Witness ==
    /\ lpc = "phase2"
    /\ \E r \in recipes : \E q \in prev.tables.recipes :
          /\ q.id = r.id
          /\ q.category # PyNone
          /\ r.category = PyNone
          /\ q.name # r.name

\* C16: over every step, a recipes row keeps its id under its
\* (source_name, source_id) and an ingredients row keeps its id under its
\* normalized_name; no table holds two rows of one natural key or of one id;
\* and every link refers, after the step as before it, to the recipe and
\* the ingredient of the same natural keys.
C16_StableIds ==
    [][ /\ \A r \in recipes : \A q \in recipes' :
              (q.source_name = r.source_name /\ q.source_id = r.source_id)
              <=> (q.id = r.id)
        /\ \A r \in recipes : \E q \in recipes' : q.id = r.id
        /\ \A i \in ingredients : \A q \in ingredients' :
              (q.normalized_name = i.normalized_name) <=> (q.id = i.id)
        /\ \A i \in ingredients : \E q \in ingredients' : q.id = i.id
        /\ \A r, q \in recipes' :
              (r.id = q.id \/ (r.source_name = q.source_name
                               /\ r.source_id = q.source_id)) => (r = q)
        /\ \A i, q \in ingredients' :
              (i.id = q.id \/ i.normalized_name = q.normalized_name) => (i = q)
        /\ \A l \in recipe_ingredients : \E m \in recipe_ingredients' :
              /\ m.recipe_id = l.recipe_id
              /\ m.ingredient_id = l.ingredient_id
              /\ \E r \in recipes' : r.id = m.recipe_id
              /\ \E i \in ingredients' : i.id = m.ingredient_id ]_vars

\* the ingredient phase of a later load has upserted a name the store
\* already held: the counter has advanced, the row has the id it had
C16_Witness ==
    /\ lpc = "phase3"
    /\ nloads >= 2
    /\ \E i \in ingredients : \E q \in prev.tables.ingredients :
          /\ q.normalized_name = i.normalized_name
          /\ q.id = i.id
          /\ autoinc.ingredients > i.id + 1
          /\ \E k \in 1..Len(IngredientStage(ldf)) :
                IngredientStage(ldf)[k].normalized_name = i.normalized_name

\* the raw forms, trimmed, that the batch of the run supplies for a
\* canonical name
RawForms(canonical) ==
    { Strip(item.ingredient.v) :
        item \in { it \in UNION { Range(IngredientItems(raw[k].ingredients)) :
                                    k \in 1..Len(raw) } :
                     /\ it.t = "dict"
                     /\ it.ingredient.t = "str"
                     /\ normalize_ingredient_name(it.ingredient)
                          = PyStr(canonical) } }

\* C17: once the ingredient phase of a run on an empty store has ended,
\* every ingredients row holds the canonical name in normalized_name and,
\* in name, a raw form in which the batch supplied that ingredient.
C17_DisplayName ==
    (wpc = "loading" /\ lpc \in { "phase3", "count", "done" })
    => \A i \in ingredients : i.name \in RawForms(i.normalized_name)

\* the stores a run of load_parquet_to_db on df without a failure can leave
\* when it starts from the store st
FailureFreeTables(st, df) ==
    { LET r == UpsertRecipes([tbl |-> st.tables.recipes,
                              next |-> st.autoinc.recipes],
                             RecipesStage(df), o1, 1)
          i == UpsertIngredients([tbl |-> st.tables.ingredients,
                                  next |-> st.autoinc.ingredients],
                                 IngredientStage(df), o2, 1)
      IN  [recipes |-> r.tbl,
           ingredients |-> i.tbl,
           recipe_ingredients |->
               UpsertLinks(st.tables.recipe_ingredients, MappingStage(df),
                           o3, 1, r.tbl, i.tbl)] :
        o1 \in Orders(Len(RecipesStage(df))),
        o2 \in Orders(Len(IngredientStage(df))),
        o3 \in Orders(Len(MappingStage(df))) }

\* a store without its surrogate ids: the rows by their natural keys
ByNaturalKey(t) ==
    [recipes |-> { [source_name |-> r.source_name, source_id |-> r.source_id,
                    name |-> r.name, category |-> r.category, area |-> r.area,
                    instructions |-> r.instructions,
                    thumbnail |-> r.thumbnail] : r \in t.recipes },
     ingredients |-> { [name |-> i.name, normalized_name |-> i.normalized_name] :
                          i \in t.ingredients },
     recipe_ingredients |->
        UNION { { [source_name |-> r.source_name, source_id |-> r.source_id,
                   normalized_name |-> i.normalized_name,
                   measure |-> l.measure] :
                    r \in { x \in t.recipes : x.id = l.recipe_id },
                    i \in { y \in t.ingredients : y.id = l.ingredient_id } } :
                l \in t.recipe_ingredients }]

\* the call before this one failed in phase 2 or 3, and this one has run
\* the same frame to completion
RerunCompleted ==
    /\ nloads >= 2
    /\ prev.pc \in { "failed2", "failed3" }
    /\ prev.df = ldf
    /\ lpc = "done"

\* what the phases before the failed one have committed is in the store
CommittedStays ==
    /\ (lpc \in { "failed2", "failed3" })
         => \A k \in 1..Len(ldf.rows) : \E r \in recipes :
               /\ r.source_name = ldf.rows[k].source_name
               /\ r.source_id = ldf.rows[k].source_id
    /\ (lpc = "failed3")
         => \A k \in 1..Len(MappingStage(ldf)) : \E i \in ingredients :
               i.normalized_name = MappingStage(ldf)[k].normalized_name

\* C18 as stated: a failure in phase 2 or 3 leaves what the earlier phases
\* committed, and the same frame run again to completion leaves exactly a
\* store that a run without failure, from the store the failed run started
\* on, leaves: rows, column values and surrogate ids.
C18_RerunExact ==
    /\ CommittedStays
    /\ RerunCompleted => (Tables \in FailureFreeTables(prev.start, ldf))

\* C18 amended: the store after the re-run has, by natural keys, the rows,
\* column values and links of a store that a run without failure leaves;
\* the surrogate ids of the rows the re-run inserts can be higher, by the
\* values the failed statement had drawn.
C18_RerunSameRows ==
    /\ CommittedStays
    /\ RerunCompleted
         => (ByNaturalKey(Tables)
               \in { ByNaturalKey(t) : t \in FailureFreeTables(prev.start, ldf) })

\* a re-run has completed after a failed ingredient phase that had drawn
\* AUTO_INCREMENT values, and has inserted new ingredients rows
C18_Witness ==
    /\ RerunCompleted
    /\ prev.pc = "failed2"
    /\ prev.autoinc.ingredients > prev.start.autoinc.ingredients
    /\ ingredients # prev.start.tables.ingredients
    /\ recipe_ingredients # prev.start.tables.recipe_ingredients

\* the positions of the raw records for which flatten appends a row: the
\* key is complete and no earlier record has the same key
KeptPositions ==
    { i \in 1..Len(raw) :
        /\ ~KeyMissing(raw[i])
        /\ \A j \in 1..(i - 1) : RawKey(raw[j]) # RawKey(raw[i]) }

\* the position of the raw record behind output row k
KeptPosition(k) ==
    CHOOSE i \in KeptPositions :
        Cardinality({ j \in KeptPositions : j <= i }) = k

\* the positions of the entries of a list whose name normalizes to a value
\* other than None
Surviving(items) ==
    { i \in 1..Len(items) :
        normalize_ingredient_name(items[i].ingredient) # PyNone }

\* C19: for each record kept by flatten, the output ingredient list is
\* exactly the subsequence of the raw entries whose name normalizes to a
\* value other than None, in their original order, each with the canonical
\* name and its own measure; an entry whose name normalizes to None leaves
\* nothing behind, its measure included.
C19_SurvivingEntries ==
    (fpc = "done" /\ ~flat.raised) =>
        /\ Len(flat.rows) = Cardinality(KeptPositions)
        /\ \A k \in 1..Len(flat.rows) :
             LET items == IngredientItems(raw[KeptPosition(k)].ingredients)
                 out   == flat.rows[k].ingredients
             IN  /\ Len(out) = Cardinality(Surviving(items))
                 /\ \A i \in Surviving(items) :
                      LET e == out[Cardinality({ j \in Surviving(items) : j <= i })]
                      IN  /\ e.ingredient =
                               normalize_ingredient_name(items[i].ingredient).v
                          /\ e.measure =
                               IF items[i].measure.t = "str"
                               THEN normalize_measure(items[i].measure)
                               ELSE items[i].measure

\* a kept record whose list has a dropped entry with a measure between two
\* surviving entries
C19_Witness ==
    /\ fpc = "done"
    /\ ~flat.raised
    /\ Len(flat.rows) = 1
    /\ raw[KeptPosition(1)].ingredients =
           IngList(<< ItemEggPadded, ItemBlank, ItemEggs >>)
    /\ flat.rows[1].ingredients =
           << [ingredient |-> STR_egg, measure |-> PyNone],
              [ingredient |-> STR_egg, measure |-> PyStr(<<"2">>)] >>

\* whether text s contains the literal "to taste"
ContainsToTaste(s) ==
    \E j \in 1..(Len(s) - Len(ToTaste) + 1) :
        SubSeq(s, j, j + Len(ToTaste) - 1) = ToTaste

\* C20: normalize_measure returns None for a null, empty or whitespace-only
\* input and never returns "", "n/a" or "null"; a result other than None
\* is trimmed and lowercased and never contains "to taste".
C20_NoToTaste ==
    mpc = "done" =>
        /\ (measureIn = PyNone \/ Strip(measureIn.v) = << >>)
               => measureOut = PyNone
        /\ measureOut # PyNone =>
               /\ measureOut.t = "str"
               /\ measureOut.v \notin MeasureStoplist
               /\ measureOut.v = Lower(Strip(measureOut.v))
               /\ ~ContainsToTaste(measureOut.v)

\* whether some (source_name, source_id) pair occurs more than once among
\* the rows of a frame
PairRepeated(df) ==
    \E i, j \in 1..Len(df.rows) :
        /\ i < j
        /\ df.rows[i].source_name = df.rows[j].source_name
        /\ df.rows[i].source_id = df.rows[j].source_id

\* C21: on a non-empty batch produced by flatten the checker holds a
\* unique_source_combo result, it passed exactly when no (source_name,
\* source_id) pair occurs more than once among the rows, and it passed.
C21_UniqueCombo ==
    (qpc = "validated" /\ qdf.rows # << >>) =>
        \E k \in 1..Len(results) :
            /\ results[k].check_name = "unique_source_combo"
            /\ results[k].passed <=> ~PairRepeated(qdf)
            /\ results[k].passed

\* C22: after any sequence of checks, get_summary() has passed + failed =
\* total_checks = the number of accumulated results, passed is the number
\* of results with passed = true, pass_rate is passed / total_checks (0
\* without results), and its results list has one entry per accumulated
\* result, in the order the checks were run.
C22_Summary ==
    qpc = "summarized" =>
        LET n  == Len(results)
            ok == Cardinality({ i \in 1..n : results[i].passed })
        IN  /\ summary.total_checks = n
            /\ summary.passed + summary.failed = summary.total_checks
            /\ summary.passed = ok
            /\ summary.pass_rate.den > 0
            /\ summary.pass_rate.num * n = ok * summary.pass_rate.den
            /\ n = 0 => summary.pass_rate.num = 0
            /\ Len(summary.results) = n
            /\ \A i \in 1..n :
                 /\ summary.results[i].check_name = results[i].check_name
                 /\ summary.results[i].passed = results[i].passed

\* a summary of several results of which some passed and some failed
C22_Witness ==
    /\ qpc = "summarized"
    /\ summary.total_checks >= 3
    /\ summary.passed >= 1
    /\ summary.failed >= 1

STR_red_onions == <<"r","e","d"," ","o","n","i","o","n","s">>

\* the keys of the plural table
PluralKeys ==
    { PLURAL_REPLACEMENTS[k][1] : k \in 1..Len(PLURAL_REPLACEMENTS) }

\* the singular the table lists for a key
SingularOf(key) ==
    PLURAL_REPLACEMENTS[CHOOSE k \in 1..Len(PLURAL_REPLACEMENTS) :
                            PLURAL_REPLACEMENTS[k][1] = key][2]

\* the cleaned name of a string argument after the prefix removal
PrefixStripped(x) == Strip(GarbagePrefixSub(CleanName(x.v)))

\* C23: the plural substitution is applied only when the whole cleaned,
\* prefix-stripped name equals a key of the table: such a name is returned as
\* its singular, and any other name is returned as it is (or rejected),
\* so "red onions" keeps the word "onions".
C23_ExactPlural ==
    (npc # "start" /\ nameIn.t = "str" /\ Strip(nameIn.v) # << >>) =>
        LET stripped == PrefixStripped(nameIn)
        IN  /\ stripped \in PluralKeys =>
                   nameOut = PyStr(SingularOf(stripped))
            /\ stripped \notin PluralKeys =>
                   nameOut \in { PyNone, PyStr(stripped) }
            /\ nameIn = PyStr(STR_red_onions) =>
                   nameOut = PyStr(STR_red_onions)

\* "red onions" has been normalized
C23_Witness ==
    /\ npc # "start"
    /\ nameIn = PyStr(STR_red_onions)
    /\ nameOut = PyStr(STR_red_onions)

\* the etl_runs rows of the flow's run
RunRows == { r \in etl_runs : r.run_id = RunId }

\* C24: on every run of recipe_etl_flow that completes, the records_loaded
\* value written to the run metadata is the recipes_loaded count that
\* load_parquet_to_db returned, not the transformed-record count.
C24_RecordsLoaded ==
    wpc = "completed" =>
        \A r \in RunRows : r.records_loaded = << lret.recipes_loaded >>

\* C25: when extract, transform, quality validation or load raises, the
\* run's metadata row ends with status "failed" and the error message, and
\* the exception leaves the flow; status "completed" is written only after
\* load_parquet_to_db has returned; no finished run is left "running".
C25_FinalStatus ==
    /\ wpc = "failed" =>
          /\ error \in { "extract", "transform", "quality", "load" }
          /\ Cardinality(RunRows) = 1
          /\ \A r \in RunRows :
                r.status = "failed" /\ r.error_message = << error >>
    /\ \A r \in RunRows :
          r.status = "completed" => (wpc = "completed" /\ lpc = "done")
    /\ wpc \in { "completed", "failed" } =>
          /\ RunRows # {}
          /\ \A r \in RunRows : r.status # "running"
    /\ wpc = "completed" => \A r \in RunRows : r.status = "completed"

\* the load raised after the run was logged as running twice
C25_Witness ==
    /\ wpc = "failed"
    /\ error = "load"
    /\ lpc = "raised"
    /\ \E r \in RunRows :
          /\ r.status = "failed"
          /\ r.error_message = << "load" >>
          /\ r.records_transformed # Null

\* the optional arguments of log_etl_run, which are the nullable columns
OptionalFields ==
    { "raw_file_path", "parquet_file_path", "records_extracted",
      "records_transformed", "records_loaded", "quality_check_passed",
      "error_message", "extract_timestamp", "transform_timestamp",
      "load_timestamp" }

\* the positions in calls of the calls for a run id
CallsFor(run_id) == { k \in 1..Len(calls) : calls[k].args.run_id = run_id }

\* the most recent value other than None passed for a field, NULL if none
LatestValue(run_id, field) ==
    LET given == { k \in CallsFor(run_id) : calls[k].args[field] # Null }
    IN  IF given = {} THEN Null
        ELSE calls[CHOOSE k \in given : \A h \in given : h <= k].args[field]

\* C26: after any sequence of log_etl_run calls with the same run_id,
\* etl_runs holds exactly one row for that run_id; its status is that of the
\* latest call, its run_timestamp that of the first call, and every other
\* field holds the most recent non-null value passed for it.
C26_OneRowPerRun ==
    \A run_id \in { calls[k].args.run_id : k \in 1..Len(calls) } :
        LET rows  == { r \in etl_runs : r.run_id = run_id }
            first == CHOOSE k \in CallsFor(run_id) :
                         \A h \in CallsFor(run_id) : k <= h
            last  == CHOOSE k \in CallsFor(run_id) :
                         \A h \in CallsFor(run_id) : h <= k
        IN  /\ Cardinality(rows) = 1
            /\ \A r \in rows :
                  /\ r.status = calls[last].args.status
                  /\ r.run_timestamp = calls[first].at
                  /\ \A f \in OptionalFields : r[f] = LatestValue(run_id, f)

\* two calls for one run id of which the second passes None for fields the
\* first has set, and the row still holds them
C26_Witness ==
    /\ Len(calls) = 2
    /\ calls[1].args.run_id = calls[2].args.run_id
    /\ calls[1].args.records_loaded = << 5 >>
    /\ calls[1].args.quality_check_passed = << FALSE >>
    /\ calls[2].args.records_loaded = Null
    /\ calls[2].args.quality_check_passed = Null
    /\ calls[2].args.status = "failed"
    /\ \E r \in etl_runs :
          /\ r.status = "failed"
          /\ r.records_loaded = << 5 >>
          /\ r.quality_check_passed = << FALSE >>
          /\ r.run_timestamp = 0

\* C27: load_parquet_to_db completes without error on a non-empty batch in
\* which no recipe has any ingredient: the recipes are upserted, the
\* ingredients and recipe_ingredients tables are left unchanged, and the
\* three counts are returned.
C27_NoIngredients ==
    (/\ lpc \in { "done", "raised" }
     /\ ldf.rows # << >>
     /\ \A k \in 1..Len(ldf.rows) : ldf.rows[k].ingredients = << >>) =>
        /\ lpc = "done"
        /\ \A k \in 1..Len(ldf.rows) :
              \E r \in recipes : /\ r.source_name = ldf.rows[k].source_name
                                 /\ r.source_id = ldf.rows[k].source_id
        /\ ingredients = prev.tables.ingredients
        /\ recipe_ingredients = prev.tables.recipe_ingredients
        /\ lret = LoadCounts(Cardinality(recipes), Cardinality(ingredients),
                             Cardinality(recipe_ingredients))

\* C28: a failed bulk-detail request for a dish type is not cached as a
\* result: after such a failure, a pass with refresh=False requests that
\* dish type from the API again and does not return an empty list loaded
\* from the cache.
C28_FailureNotCached ==
    (lastFetch.after_failure /\ ~lastFetch.refresh) => lastFetch.requested

\* the recipe_ingredients rows of the recipe stored for a parquet row
LinksOf(row) ==
    { l \in recipe_ingredients :
        \E r \in recipes : /\ r.source_name = row.source_name
                           /\ r.source_id = row.source_id
                           /\ l.recipe_id = r.id }

\* C29: each recipe emitted by flatten lists every canonical ingredient name
\* at most once, so that on an empty store load_parquet_to_db writes as many
\* recipe_ingredients rows for a recipe as its ingredient list is long.
C29_DistinctNames ==
    /\ (fpc = "done" /\ ~flat.raised) =>
          \A k \in 1..Len(flat.rows) :
             \A i, j \in 1..Len(flat.rows[k].ingredients) :
                i # j => flat.rows[k].ingredients[i].ingredient
                           # flat.rows[k].ingredients[j].ingredient
    /\ wpc = "completed" =>
          \A k \in 1..Len(parquet.df.rows) :
             Cardinality(LinksOf(parquet.df.rows[k]))
                = Len(parquet.df.rows[k].ingredients)

\* C30: for every batch and every prior store state, an empty batch on a
\* non-empty store included, the three values load_parquet_to_db returns are
\* the numbers of rows of recipes, ingredients and recipe_ingredients after
\* the call; an empty batch performs no write on any table.
C30_CountsAreTotals ==
    lpc = "done" =>
        /\ lret = LoadCounts(Cardinality(recipes), Cardinality(ingredients),
                             Cardinality(recipe_ingredients))
        /\ ldf.rows = << >> => Tables = prev.tables

=============================================================================
